---------------------------- MODULE Spec2Model ----------------------------
(***************************************************************************)
(* Model of robot-driver-api: the observe-plan-act browser agent of        *)
(* src/src/agent_driver.py, the scripted runner of src/src/robot.py and    *)
(* the outcome shaping of src/app.py.                                      *)
(*                                                                         *)
(* Strings that the code searches with Python's `in` are sequences of      *)
(* tokens; `needle in hay` is "needle is a contiguous run of hay".         *)
(* Optional values are None == <<>> or Some(v) == <<v>>.                   *)
(***************************************************************************)
EXTENDS Naturals, Sequences, FiniteSets, TLC

(***************************************************************************)
(* Python values                                                           *)
(***************************************************************************)
None == <<>>
Some(v) == <<v>>

\* dict.get(key, default)
Get(d, key, default) == IF key \in DOMAIN d THEN d[key] ELSE default

\* `needle in hay` on token strings
Contains(hay, needle) ==
    \E i \in 0..(Len(hay) - Len(needle)) :
        \A j \in 1..Len(needle) : hay[i + j] = needle[j]

\* str.lower(), token by token
LowerTok(t) ==
    CASE t = "Continue" -> "continue"
      [] t = "CONTINUE" -> "continue"
      [] t = "Shopping" -> "shopping"
      [] t = "SHOPPING" -> "shopping"
      [] t = "TwoTabSearchTextBox" -> "twotabsearchtextbox"
      [] t = "productTitle" -> "producttitle"
      [] t = "Price" -> "price"
      [] t = "INPUT" -> "input"
      [] t = "Type the characters" -> "type the characters"
      [] OTHER -> t
Lower(s) == [i \in 1..Len(s) |-> LowerTok(s[i])]

\* str.strip(): drop the whitespace tokens at both ends
IsSpace(t) == t = " "
RECURSIVE LStrip(_)
LStrip(s) == IF s # <<>> /\ IsSpace(Head(s)) THEN LStrip(Tail(s)) ELSE s
RECURSIVE RStrip(_)
RStrip(s) ==
    IF s # <<>> /\ IsSpace(s[Len(s)]) THEN RStrip(SubSeq(s, 1, Len(s) - 1)) ELSE s
Strip(s) == RStrip(LStrip(s))

\* s[:n]
Take(s, n) == SubSeq(s, 1, IF Len(s) < n THEN Len(s) ELSE n)

\* `x or default` for an optional token string
OrEmpty(o) == IF o = None THEN <<>> ELSE o[1]

(***************************************************************************)
(* Selectors and URLs of agent_driver.py                                   *)
(***************************************************************************)
FIRST_PRODUCT_LINK == "__FIRST_PRODUCT_LINK__"
PRICE == "__PRICE__"
SEARCH_BOX == "#twotabsearchtextbox"
SEARCH_SUBMIT == "#nav-search-submit-button"
PRODUCT_TITLE == "#productTitle"
GATE_TEXT == "text=Continue shopping"

LINK_PRIMARY == "div.s-main-slot h2 a[href*='/dp/']"
LINK_LOOSE == "div.s-main-slot h2 a"
LINK_ANY == "a[href*='/dp/']"
LinkPatterns == <<LINK_PRIMARY, LINK_LOOSE, LINK_ANY>>

candidate_selectors ==
    << "#corePriceDisplay_desktop_feature_div span.a-offscreen",
       "#apex_desktop span.a-offscreen",
       "span#priceblock_ourprice",
       "span#priceblock_dealprice",
       "span.a-price span.a-offscreen" >>

HomeUrl == <<"https://www.", "amazon.com", "/">>
ResultsUrl == <<"https://www.", "amazon.com", "/", "s?k=", "q">>
ProductUrl == <<"https://www.", "amazon.com", "/dp/", "B0">>
ResultsDpUrl == <<"https://www.", "amazon.com", "/dp/", "B0", "?", "s?k=", "q">>
SigninUrl == <<"https://www.", "amazon.com", "/ap/signin">>
BlankUrl == <<"about:blank">>
ForeignResultsUrl == <<"https://", "example.org", "/", "s?k=", "q">>
ForeignProductUrl == <<"https://", "example.org", "/dp/", "B0">>


(***************************************************************************)
(* 1. Page model and Playwright helpers                                    *)
(*                                                                         *)
(* A page is [url, dom, anchors, prices, asins]: dom is the sequence of    *)
(* nodes the snapshot locator matches (document order), anchors the <a>    *)
(* elements the product-link patterns can match, prices[i] what the i-th   *)
(* price candidate selector finds, asins the data-asin attributes of the   *)
(* search-result containers.                                               *)
(***************************************************************************)
Node(tag, text, sel) ==
    [tag |-> tag, text |-> text, role |-> None, placeholder |-> None,
     aria_label |-> None, selector_guess |-> sel]

\* the keep heuristic of read_page_state; text is the stripped inner text
Keep(n, text) ==
    \/ n.tag \in {Some("BUTTON"), Some("A"), Some("INPUT"), Some("SELECT"),
                  Some("TEXTAREA")}
    \/ n.selector_guess # None /\ Contains(n.selector_guess[1], <<"productTitle">>)
    \/ Contains(Lower(OrEmpty(n.selector_guess)), <<"price">>)
    \/ Contains(text, <<"$">>)
    \/ n.tag \in {Some("H1"), Some("H2"), Some("H3")} /\ text # <<>>

RawCap == 200
TextCap == 200
SnapshotCap == 60

\* the loop over the candidates, in document order (split in halves to
\* keep the evaluation shallow on long documents)
RECURSIVE Retained(_)
Retained(nodes) ==
    IF nodes = <<>> THEN <<>>
    ELSE IF Len(nodes) = 1
    THEN LET n == nodes[1]
             text == Strip(n.text)
         IN  IF Keep(n, text) THEN <<[n EXCEPT !.text = Take(text, TextCap)]>>
             ELSE <<>>
    ELSE LET half == Len(nodes) \div 2
         IN  Retained(SubSeq(nodes, 1, half))
             \o Retained(SubSeq(nodes, half + 1, Len(nodes)))

Attributes == {"tag", "text", "role", "placeholder", "aria_label", "selector_guess"}

\* the value an except branch assigns: "" for the text, None for the rest
Fallback(attr) == IF attr = "text" THEN <<>> ELSE None

\* variant: one failing read blanks the whole element
ExtractAll(page, i) ==
    [a \in Attributes |->
        IF \E b \in Attributes : <<i, b>> \in page.broken
        THEN Fallback(a) ELSE page.dom[i][a]]

\* one element as the loop body reads it: each attribute in its own try,
\* page.broken being the reads that raise
Extract(page, i) ==
    [a \in Attributes |->
        IF <<i, a>> \in page.broken THEN Fallback(a) ELSE page.dom[i][a]]

Extracted(page) ==
    IF page.broken = {} THEN page.dom
    ELSE [i \in 1..Len(page.dom) |-> Extract(page, i)]

\* variant: the 60-element cap applied to the raw candidates
read_page_state_capFirst(page) ==
    [url |-> page.url,
     snapshot |-> Retained(Take(Extracted(page), SnapshotCap))]

read_page_state(page) ==
    [url |-> page.url,
     snapshot |-> Take(Retained(Take(Extracted(page), RawCap)), SnapshotCap)]

\* locator(pattern).count() > 0 for the three product-link patterns
Matches(a, pattern) ==
    CASE pattern = LINK_PRIMARY -> a.inSlotH2 /\ a.dp
      [] pattern = LINK_LOOSE -> a.inSlotH2
      [] pattern = LINK_ANY -> a.dp
      [] OTHER -> FALSE
Count(page, pattern) ==
    Cardinality({i \in 1..Len(page.anchors) : Matches(page.anchors[i], pattern)})

\* find_first_product_link, from pattern index k on
RECURSIVE FirstLinkFrom(_, _)
FirstLinkFrom(page, k) ==
    IF k > Len(LinkPatterns) THEN None
    ELSE IF Count(page, LinkPatterns[k]) > 0 THEN Some(LinkPatterns[k])
    ELSE FirstLinkFrom(page, k + 1)
\* mutant: the any-link pattern tried before the loose heading link
find_first_product_link_anyFirst(page) ==
    IF Count(page, LINK_PRIMARY) > 0 THEN Some(LINK_PRIMARY)
    ELSE IF Count(page, LINK_ANY) > 0 THEN Some(LINK_ANY)
    ELSE IF Count(page, LINK_LOOSE) > 0 THEN Some(LINK_LOOSE)
    ELSE None
find_first_product_link(page) == FirstLinkFrom(page, 1)

(***************************************************************************)
(* extract_price_text.  prices[i] is what the i-th candidate selector      *)
(* finds: [status |-> "timeout"] (never attached within the wait),         *)
(* [status |-> "error"] (inner_text raises) or [status |-> "ok"] with the  *)
(* element's raw text.  The result carries the text returned and the       *)
(* candidates queried, in order.                                           *)
(***************************************************************************)
Absent == [status |-> "timeout", text |-> <<>>]
Broken == [status |-> "error", text |-> <<>>]
Shown(text) == [status |-> "ok", text |-> text]

RECURSIVE PriceFrom(_, _, _)
PriceFrom(prices, i, queried) ==
    IF i > Len(candidate_selectors) THEN [text |-> <<>>, queried |-> queried]
    ELSE LET q == Append(queried, candidate_selectors[i])
             raw == Strip(prices[i].text)
         IN  IF prices[i].status # "ok" THEN PriceFrom(prices, i + 1, q)
             ELSE IF raw # <<>> THEN [text |-> raw, queried |-> q]
             ELSE PriceFrom(prices, i + 1, q)
\* mutant: the first attached candidate is returned even when it is empty
RECURSIVE PriceFromAttached(_, _, _)
PriceFromAttached(prices, i, queried) ==
    IF i > Len(candidate_selectors) THEN [text |-> <<>>, queried |-> queried]
    ELSE LET q == Append(queried, candidate_selectors[i])
         IN  IF prices[i].status # "ok" THEN PriceFromAttached(prices, i + 1, q)
             ELSE [text |-> Strip(prices[i].text), queried |-> q]
extract_price_text_firstAttached(page) == PriceFromAttached(page.prices, 1, <<>>)
extract_price_text(page) == PriceFrom(page.prices, 1, <<>>)

(***************************************************************************)
(* 3. Rule-based planner                                                   *)
(***************************************************************************)
has_search_box(snapshot) ==
    \E i \in 1..Len(snapshot) :
        LET sel == Lower(OrEmpty(Get(snapshot[i], "selector_guess", None)))
        IN  \/ Contains(sel, <<"#", "twotabsearchtextbox">>)
            \/ Contains(sel, <<"twotabsearchtextbox">>)

sees_continue_shopping(snapshot) ==
    \E i \in 1..Len(snapshot) :
        LET text == Lower(Strip(Get(snapshot[i], "text", <<>>)))
        IN  Contains(text, <<"continue", " ", "shopping">>)

GatePlan ==
    << [action |-> "click", selector |-> GATE_TEXT],
       [action |-> "wait_for_selector", selector |-> SEARCH_BOX] >>
HomePlan(goal) ==
    << [action |-> "wait_for_selector", selector |-> SEARCH_BOX],
       [action |-> "fill", selector |-> SEARCH_BOX, value |-> goal],
       [action |-> "click", selector |-> SEARCH_SUBMIT],
       [action |-> "wait_for_selector", selector |-> FIRST_PRODUCT_LINK] >>
ResultsPlan ==
    << [action |-> "wait_for_selector", selector |-> FIRST_PRODUCT_LINK],
       [action |-> "click", selector |-> FIRST_PRODUCT_LINK],
       [action |-> "wait_for_selector", selector |-> PRODUCT_TITLE] >>
ProductPlan ==
    << [action |-> "wait_for_selector", selector |-> PRODUCT_TITLE],
       [action |-> "extract_text", selector |-> PRICE],
       [action |-> "extract_text", selector |-> PRODUCT_TITLE],
       [action |-> "final_answer",
        result |-> "Scraped price and title from product page"] >>
ResetPlan ==
    << [action |-> "goto", url |-> HomeUrl],
       [action |-> "wait_for_selector", selector |-> SEARCH_BOX] >>

\* mutant: the URL rules tried before the interstitial rule
ask_llm_urlFirst(goal, page_state) ==
    LET url == Get(page_state, "url", <<>>)
        snapshot == Get(page_state, "snapshot", <<>>)
    IN  IF /\ Contains(url, <<"amazon.com">>)
           /\ ~Contains(url, <<"s?k=">>)
           /\ ~Contains(url, <<"/dp/">>)
           /\ has_search_box(snapshot)
        THEN HomePlan(goal)
        ELSE IF Contains(url, <<"s?k=">>) THEN ResultsPlan
        ELSE IF Contains(url, <<"/dp/">>) THEN ProductPlan
        ELSE IF sees_continue_shopping(snapshot) /\ ~has_search_box(snapshot)
        THEN GatePlan
        ELSE ResetPlan

\* mutant: no fallback rule, an unrecognized state yields no steps
ask_llm_noReset(goal, page_state) ==
    LET url == Get(page_state, "url", <<>>)
        snapshot == Get(page_state, "snapshot", <<>>)
    IN  IF sees_continue_shopping(snapshot) /\ ~has_search_box(snapshot)
        THEN GatePlan
        ELSE IF /\ Contains(url, <<"amazon.com">>)
                /\ ~Contains(url, <<"s?k=">>)
                /\ ~Contains(url, <<"/dp/">>)
                /\ has_search_box(snapshot)
        THEN HomePlan(goal)
        ELSE IF Contains(url, <<"s?k=">>) THEN ResultsPlan
        ELSE IF Contains(url, <<"/dp/">>) THEN ProductPlan
        ELSE <<>>

\* variant: the interstitial rule also asks for a <button> element
ask_llm_buttonGate(goal, page_state) ==
    LET url == Get(page_state, "url", <<>>)
        snapshot == Get(page_state, "snapshot", <<>>)
        button == \E i \in 1..Len(snapshot) :
                      Get(snapshot[i], "tag", None) = Some("BUTTON")
    IN  IF sees_continue_shopping(snapshot) /\ ~has_search_box(snapshot) /\ button
        THEN GatePlan
        ELSE IF /\ Contains(url, <<"amazon.com">>)
                /\ ~Contains(url, <<"s?k=">>)
                /\ ~Contains(url, <<"/dp/">>)
                /\ has_search_box(snapshot)
        THEN HomePlan(goal)
        ELSE IF Contains(url, <<"s?k=">>) THEN ResultsPlan
        ELSE IF Contains(url, <<"/dp/">>) THEN ProductPlan
        ELSE ResetPlan

\* variant: the product rule tried before the results rule
ask_llm_productFirst(goal, page_state) ==
    LET url == Get(page_state, "url", <<>>)
        snapshot == Get(page_state, "snapshot", <<>>)
    IN  IF sees_continue_shopping(snapshot) /\ ~has_search_box(snapshot)
        THEN GatePlan
        ELSE IF /\ Contains(url, <<"amazon.com">>)
                /\ ~Contains(url, <<"s?k=">>)
                /\ ~Contains(url, <<"/dp/">>)
                /\ has_search_box(snapshot)
        THEN HomePlan(goal)
        ELSE IF Contains(url, <<"/dp/">>) THEN ProductPlan
        ELSE IF Contains(url, <<"s?k=">>) THEN ResultsPlan
        ELSE ResetPlan

ask_llm(goal, page_state) ==
    LET url == Get(page_state, "url", <<>>)
        snapshot == Get(page_state, "snapshot", <<>>)
    IN  IF sees_continue_shopping(snapshot) /\ ~has_search_box(snapshot)
        THEN GatePlan
        ELSE IF /\ Contains(url, <<"amazon.com">>)
                /\ ~Contains(url, <<"s?k=">>)
                /\ ~Contains(url, <<"/dp/">>)
                /\ has_search_box(snapshot)
        THEN HomePlan(goal)
        ELSE IF Contains(url, <<"s?k=">>) THEN ResultsPlan
        ELSE IF Contains(url, <<"/dp/">>) THEN ProductPlan
        ELSE ResetPlan

(***************************************************************************)
(* The site: the pages the browser can land on.  Navigation (goto, click)  *)
(* may land on any of them; a scroll may lazily render more of the same    *)
(* URL.                                                                    *)
(***************************************************************************)
SearchBoxNode == Node(Some("INPUT"), <<>>, Some(<<"#", "twotabsearchtextbox">>))
SubmitNode == Node(Some("INPUT"), <<>>, Some(<<"#", "nav-search-submit-button">>))
GateNode == Node(Some("BUTTON"), <<"Continue", " ", "shopping">>,
                 Some(<<"button", ".", "a-button-text">>))
TitleNode == Node(Some("SPAN"), <<"Apple", " ", "AirPods", " ", "Pro">>,
                  Some(<<"#", "productTitle">>))
PriceNode == Node(Some("SPAN"), <<"$", "199.99">>, Some(<<"span", ".", "a-offscreen">>))
DivNode == Node(Some("DIV"), <<"x">>, Some(<<"div">>))

PrimaryAnchor == [inSlotH2 |-> TRUE, dp |-> TRUE]
LooseAnchor == [inSlotH2 |-> TRUE, dp |-> FALSE]
AnyAnchor == [inSlotH2 |-> FALSE, dp |-> TRUE]
PlainAnchor == [inSlotH2 |-> FALSE, dp |-> FALSE]

NoPrices == [i \in 1..Len(candidate_selectors) |-> Absent]
PriceText == <<"$", "199.99">>
SecondPrice == [NoPrices EXCEPT ![2] = Shown(<<" ", "$", "199.99", " ">>),
                                ![5] = Shown(<<"$", "249.00">>)]
EmptyPrices == [NoPrices EXCEPT ![1] = Shown(<<>>), ![2] = Broken, ![5] = Shown(<<" ">>)]

Page(url, dom, anchors, prices) ==
    [url |-> url, dom |-> dom, anchors |-> anchors, prices |-> prices,
     asins |-> <<>>, broken |-> {}]

HomePage == Page(HomeUrl, <<SearchBoxNode, SubmitNode>>, <<>>, NoPrices)
GatePage == Page(HomeUrl, <<DivNode, GateNode>>, <<>>, NoPrices)
BareHomePage == Page(HomeUrl, <<DivNode>>, <<>>, NoPrices)
ResultsPage(anchors) == Page(ResultsUrl, <<SearchBoxNode, SubmitNode>>, anchors, NoPrices)
ProductPage(prices) == Page(ProductUrl, <<SearchBoxNode, TitleNode, PriceNode>>, <<>>, prices)
GatedProductPage == Page(ProductUrl, <<GateNode>>, <<>>, NoPrices)
BlankPage == Page(BlankUrl, <<>>, <<>>, NoPrices)

Site ==
    { HomePage, GatePage, BareHomePage, BlankPage, GatedProductPage,
      ResultsPage(<<>>), ResultsPage(<<PlainAnchor, LooseAnchor>>),
      ResultsPage(<<PrimaryAnchor>>),
      ProductPage(SecondPrice), ProductPage(EmptyPrices) }

AfterScroll(page) == {q \in Site : q.url = page.url} \cup {page}

(***************************************************************************)
(* 2. Action executor.  do_action(page, step) is the set of its possible   *)
(* outcomes: the page afterwards, the string returned (a prefix and a      *)
(* payload) or the exception raised, and the page calls made, in order.    *)
(***************************************************************************)
Exc(kind, msg) == [kind |-> kind, msg |-> msg]
TimeoutExc == Exc("TimeoutError", "Timeout exceeded")
PageExc == Exc("Error", "Target closed")
NoLinkExc == Exc("RuntimeError", "Could not locate any product link on results page.")

Call(op, sel, n) == [op |-> op, sel |-> sel, n |-> n]
Returned(page, prefix, text, calls) ==
    [page |-> page, result |-> Some([prefix |-> prefix, text |-> text]),
     exc |-> None, calls |-> calls]
Raised(page, exc, calls) ==
    [page |-> page, result |-> None, exc |-> Some(exc), calls |-> calls]

\* the count() calls find_first_product_link makes on this page
LinkCalls(page) ==
    LET found == find_first_product_link(page)
        last == IF found = None THEN Len(LinkPatterns)
                ELSE CHOOSE k \in 1..Len(LinkPatterns) : LinkPatterns[k] = found[1]
    IN  [k \in 1..last |-> Call("count", LinkPatterns[k], 0)]

DoGoto(page, step) ==
    LET c == <<Call("goto", "url", 0)>>
    IN  {Returned(q, "navigated", <<>>, c) : q \in Site}
        \cup {Raised(page, e, c) : e \in {TimeoutExc, PageExc}}

DoFill(page, step) ==
    LET sel == step.selector
        w == <<Call("wait_for_selector", sel, 10000)>>
        f == Append(w, Call("fill", sel, 0))
    IN  {Raised(page, TimeoutExc, w), Raised(page, PageExc, f),
         Returned(page, "filled:", sel, f)}

\* A call that raised is logged with its op followed by ":timeout" (a
\* Playwright TimeoutError) or ":error" (any other exception).

\* variant: the click is retried without scrolling the element into view
ClickResolvedNoScroll(page, sel, pre) ==
    LET w == Append(pre, Call("wait_for_selector", sel, 10000))
        wT == Append(pre, Call("wait_for_selector:timeout", sel, 10000))
        c1 == Append(w, Call("click", sel, 10000))
        c1T == Append(w, Call("click:timeout", sel, 10000))
        c2 == Append(c1T, Call("click", sel, 5000))
        c2T == Append(c1T, Call("click:timeout", sel, 5000))
    IN  {Raised(page, TimeoutExc, wT), Raised(page, TimeoutExc, c2T)}
        \cup {Returned(q, "clicked:", sel, c1) : q \in Site}
        \cup {Returned(q, "clicked:", sel, c2) : q \in Site}

\* wait for sel, click, and on a click timeout scroll into view and click again
ClickResolved(page, sel, pre) ==
    LET w == Append(pre, Call("wait_for_selector", sel, 10000))
        wT == Append(pre, Call("wait_for_selector:timeout", sel, 10000))
        c1 == Append(w, Call("click", sel, 10000))
        c1E == Append(w, Call("click:error", sel, 10000))
        c1T == Append(w, Call("click:timeout", sel, 10000))
        sc == Append(c1T, Call("scroll_into_view_if_needed", sel, 5000))
        scT == Append(c1T, Call("scroll_into_view_if_needed:timeout", sel, 5000))
        c2 == Append(sc, Call("click", sel, 5000))
        c2T == Append(sc, Call("click:timeout", sel, 5000))
    IN  {Raised(page, TimeoutExc, wT), Raised(page, PageExc, c1E),
         Raised(page, TimeoutExc, scT), Raised(page, TimeoutExc, c2T)}
        \cup {Returned(q, "clicked:", sel, c1) : q \in Site}
        \cup {Returned(q, "clicked:", sel, c2) : q \in Site}

\* variant: with no product link found, the token itself is waited on
DoClickWaitsToken(page, step) ==
    LET sel == step.selector
    IN  IF sel = FIRST_PRODUCT_LINK
        THEN UNION {
                LET dyn == find_first_product_link(p)
                    pre == <<Call("wheel", "", 800)>> \o LinkCalls(p)
                IN  ClickResolved(p, IF dyn # None THEN dyn[1] ELSE sel, pre)
                : p \in AfterScroll(page) }
        ELSE ClickResolved(page, sel, <<>>)

DoClick(page, step) ==
    LET sel == step.selector
    IN  IF sel = FIRST_PRODUCT_LINK
        THEN UNION {
                LET dyn == find_first_product_link(p)
                    pre == <<Call("wheel", "", 800)>> \o LinkCalls(p)
                IN  IF dyn = None THEN {Raised(p, NoLinkExc, pre)}
                    ELSE ClickResolved(p, dyn[1], pre)
                : p \in AfterScroll(page) }
        ELSE ClickResolved(page, sel, <<>>)

\* `needle in sel` for the literal selectors of this program
Mentions(sel, needle) ==
    CASE needle = "s-main-slot" -> sel \in {LINK_PRIMARY, LINK_LOOSE}
      [] needle = "dp/" -> sel \in {LINK_PRIMARY, LINK_ANY}
      [] needle = FIRST_PRODUCT_LINK -> sel = FIRST_PRODUCT_LINK
      [] OTHER -> FALSE

\* variant: the fallback of wait_for_selector tried for every selector
WaitFallbackAlways(page, step, sel, calls) ==
    UNION {
        LET dyn2 == find_first_product_link(p)
            pre == Append(calls, Call("wheel", "", 1600)) \o LinkCalls(p)
            w2 == Append(pre, Call("wait_for_selector", OrEmpty(dyn2), 5000))
            w2T == Append(pre, Call("wait_for_selector:timeout", OrEmpty(dyn2), 5000))
        IN  IF dyn2 = None THEN {Raised(p, TimeoutExc, pre)}
            ELSE {Returned(p, "waited:fallback:", dyn2[1], w2),
                  Raised(p, TimeoutExc, w2T)}
        : p \in AfterScroll(page) }

\* the except branch of wait_for_selector: sel is what the first wait used,
\* calls the log up to and including that wait
WaitFallback(page, step, sel, calls) ==
    IF \/ Mentions(Get(step, "selector", ""), FIRST_PRODUCT_LINK)
       \/ Mentions(sel, "s-main-slot")
       \/ Mentions(sel, "dp/")
    THEN UNION {
            LET dyn2 == find_first_product_link(p)
                pre == Append(calls, Call("wheel", "", 1600)) \o LinkCalls(p)
                w2 == Append(pre, Call("wait_for_selector", OrEmpty(dyn2), 5000))
                w2T == Append(pre, Call("wait_for_selector:timeout", OrEmpty(dyn2), 5000))
            IN  IF dyn2 = None THEN {Raised(p, TimeoutExc, pre)}
                ELSE {Returned(p, "waited:fallback:", dyn2[1], w2),
                      Raised(p, TimeoutExc, w2T)}
            : p \in AfterScroll(page) }
    ELSE {Raised(page, TimeoutExc, calls)}

WaitResolved(page, step, sel, pre) ==
    LET w == Append(pre, Call("wait_for_selector", sel, 15000))
        wE == Append(pre, Call("wait_for_selector:error", sel, 15000))
        wT == Append(pre, Call("wait_for_selector:timeout", sel, 15000))
    IN  {Returned(page, "waited:", sel, w), Raised(page, PageExc, wE)}
        \cup WaitFallback(page, step, sel, wT)

DoWait(page, step) ==
    LET sel == step.selector
    IN  IF sel = FIRST_PRODUCT_LINK
        THEN UNION {
                LET dyn == find_first_product_link(p)
                    pre == <<Call("wheel", "", 1000)>> \o LinkCalls(p)
                IN  WaitResolved(p, step, IF dyn # None THEN dyn[1] ELSE sel, pre)
                : p \in AfterScroll(page) }
        ELSE WaitResolved(page, step, sel, <<>>)

\* locator(sel).first.inner_text() of a literal selector, as the site renders it
InnerText(page, sel) ==
    IF sel = PRODUCT_TITLE /\ \E i \in 1..Len(page.dom) : page.dom[i] = TitleNode
    THEN TitleNode.text ELSE <<>>

\* mutant: an empty price is raised as an error instead of returned
DoExtractStrict(page, step) ==
    LET r == extract_price_text(page)
        c == [k \in 1..Len(r.queried) |-> Call("wait_for", r.queried[k], 5000)]
    IN  IF r.text = <<>> THEN {Raised(page, Exc("RuntimeError", "Price not found"), c)}
        ELSE {Returned(page, "extracted:", r.text, c)}

DoExtract(page, step) ==
    LET sel == step.selector
    IN  IF sel = PRICE
        THEN LET r == extract_price_text(page)
                 c == [k \in 1..Len(r.queried) |-> Call("wait_for", r.queried[k], 5000)]
             IN  {Returned(page, "extracted:", r.text, c)}
        ELSE LET w == <<Call("wait_for_selector", sel, 10000)>>
                 t == Append(w, Call("inner_text", sel, 5000))
             IN  {Raised(page, TimeoutExc, w), Raised(page, TimeoutExc, t),
                  Returned(page, "extracted:", Strip(InnerText(page, sel)), t)}

\* variant: an action name the executor does not know is an error
do_action_strict(page, step) ==
    LET action == Get(step, "action", "None")
    IN  CASE action = "goto" -> DoGoto(page, step)
          [] action = "fill" -> DoFill(page, step)
          [] action = "click" -> DoClick(page, step)
          [] action = "wait_for_selector" -> DoWait(page, step)
          [] action = "extract_text" -> DoExtract(page, step)
          [] action = "final_answer" ->
                {Returned(page, "FINAL:", Get(step, "result", ""), <<>>)}
          [] OTHER -> {Raised(page, Exc("ValueError", action), <<>>)}

do_action(page, step) ==
    LET action == Get(step, "action", "None")
    IN  CASE action = "goto" -> DoGoto(page, step)
          [] action = "fill" -> DoFill(page, step)
          [] action = "click" -> DoClick(page, step)
          [] action = "wait_for_selector" -> DoWait(page, step)
          [] action = "extract_text" -> DoExtract(page, step)
          [] action = "final_answer" ->
                {Returned(page, "FINAL:", Get(step, "result", ""), <<>>)}
          [] OTHER -> {Returned(page, "unknown_action:", action, <<>>)}

(***************************************************************************)
(* handle_bot_gate: every failure is swallowed.  The button is visible     *)
(* only on a page that shows it; a click may navigate.                     *)
(***************************************************************************)
ShowsGate(page) ==
    \E i \in 1..Len(page.dom) :
        Contains(Lower(page.dom[i].text), <<"continue", " ", "shopping">>)

handle_bot_gate(page) ==
    LET v(op) == <<Call(op, GATE_TEXT, 2000)>>
        c(op) == Append(v("is_visible"), Call(op, GATE_TEXT, 0))
        l(op) == Append(c("click"), Call(op, "domcontentloaded", 5000))
    IN  {[page |-> page, calls |-> v(op)] : op \in {"is_visible", "is_visible:error"}}
        \cup (IF ShowsGate(page)
              THEN {[page |-> page, calls |-> c("click:error")]}
                   \cup {[page |-> q, calls |-> l(op)] :
                            q \in Site,
                            op \in {"wait_for_load_state", "wait_for_load_state:timeout"}}
              ELSE {})

(***************************************************************************)
(* 4. Orchestrator loop: agent_run                                         *)
(***************************************************************************)
MaxCycles == 10
NoFinalText == "No final answer produced."
Goal == "Apple AirPods Pro"
Goals == {Goal, "usb cable"}

VARIABLES
    pc,             \* position in agent_run
    cycle,          \* iterations of the for loop begun
    page,           \* the live page
    state,          \* the last snapshot
    steps,          \* the current plan
    idx,            \* index of the next step of the plan
    result,         \* what the last do_action returned (None before any)
    final_result,   \* None or Some(text)
    exc,            \* the exception in flight (None or Some(e))
    retval,         \* the value of the return statement (None or Some(text))
    contextClosed, browserClosed,
    calls,          \* the page calls of the last helper or action
    hist,           \* history: counts and flags, read by properties only
    prog,           \* the entry point running: agent_run, the API or the CLI
    env,            \* robot.py's environment configuration
    user_goal,      \* agent_run's user_goal / the request's query
    outcome,        \* what the caller ends with (None until then)
    probe           \* a helper applied on its own: None or Some([fn, out])

vars == <<pc, cycle, page, state, steps, idx, result, final_result, exc,
          retval, contextClosed, browserClosed, calls, hist, prog, env,
          user_goal, outcome, probe>>

NoHist ==
    [snapshots |-> 0, plans |-> 0, finals |-> 0,
     bodyExc |-> None, closeExc |-> None,
     contextCloseCalls |-> 0, browserCloseCalls |-> 0,
     persistCalls |-> 0, persistFailed |-> FALSE, session |-> FALSE,
     stage |-> "start", results |-> <<>>]

NoEnv == [statePath |-> FALSE, creds |-> FALSE]

\* everything but the entry point, its configuration and its first position
Fresh ==
    /\ cycle = 0
    /\ page = BlankPage
    /\ state = [url |-> <<>>, snapshot |-> <<>>]
    /\ steps = <<>>
    /\ idx = 0
    /\ result = None
    /\ final_result = None
    /\ exc = None
    /\ retval = None
    /\ contextClosed = FALSE
    /\ browserClosed = FALSE
    /\ calls = <<>>
    /\ hist = NoHist
    /\ outcome = None
    /\ probe = None

AgentInit ==
    /\ pc = "make_env"
    /\ prog = "agent_run"
    /\ env = NoEnv
    /\ user_goal = Goal
    /\ Fresh

\* browser, context, page = make_env(pw): outside the try block
MakeEnv ==
    /\ pc = "make_env"
    /\ calls' = <<Call("launch", "", 0)>>
    /\ \/ /\ hist' = [hist EXCEPT !.session = TRUE]
          /\ pc' = "goto_home"
          /\ exc' = exc
       \/ /\ exc' = Some(PageExc)
          /\ pc' = "exit"
          /\ hist' = hist
    /\ UNCHANGED <<cycle, page, state, steps, idx, result, final_result, retval,
                   contextClosed, browserClosed, prog, probe, env, user_goal, outcome>>

\* mutant: no finally block, the exception leaves agent_run at once
ThrowPastFinally(e) ==
    /\ exc' = Some(e)
    /\ hist' = [hist EXCEPT !.bodyExc = Some(e)]
    /\ pc' = "exit"

\* an exception leaves the try body: the finally block runs next
Throw(e) ==
    /\ exc' = Some(e)
    /\ hist' = [hist EXCEPT !.bodyExc = Some(e)]
    /\ pc' = "close_context"

\* page.goto("https://www.amazon.com/", wait_until="domcontentloaded")
GotoHome ==
    /\ pc = "goto_home"
    /\ \E o \in DoGoto(page, [action |-> "goto", url |-> HomeUrl]) :
          /\ page' = o.page
          /\ calls' = o.calls
          /\ IF o.exc # None THEN Throw(o.exc[1])
             ELSE pc' = "loop" /\ UNCHANGED <<exc, hist>>
    /\ UNCHANGED <<cycle, state, steps, idx, result, final_result, retval,
                   contextClosed, browserClosed, prog, probe, env, user_goal, outcome>>

\* mutant: one iteration too many
LoopHeadOffByOne ==
    /\ pc = "loop"
    /\ IF cycle <= MaxCycles
       THEN cycle' = cycle + 1 /\ pc' = "gate"
       ELSE cycle' = cycle /\ pc' = "return"
    /\ UNCHANGED <<page, state, steps, idx, result, final_result, exc, retval,
                   contextClosed, browserClosed, calls, hist, prog, probe, env,
                   user_goal, outcome>>

\* for _ in range(10)
LoopHead ==
    /\ pc = "loop"
    /\ IF cycle < MaxCycles
       THEN cycle' = cycle + 1 /\ pc' = "gate"
       ELSE cycle' = cycle /\ pc' = "return"
    /\ UNCHANGED <<page, state, steps, idx, result, final_result, exc, retval,
                   contextClosed, browserClosed, calls, hist, prog, probe, env,
                   user_goal, outcome>>

\* variant: a failure inside handle_bot_gate is not swallowed
BotGateFatal ==
    /\ pc = "gate"
    /\ \E o \in handle_bot_gate(page) :
          /\ page' = o.page
          /\ calls' = o.calls
          /\ IF o.calls[Len(o.calls)].op \in
                   {"is_visible:error", "click:error", "wait_for_load_state:timeout"}
             THEN Throw(TimeoutExc)
             ELSE pc' = "observe" /\ UNCHANGED <<exc, hist>>
    /\ UNCHANGED <<cycle, state, steps, idx, result, final_result, retval,
                   contextClosed, browserClosed, prog, probe, env, user_goal, outcome>>

BotGate ==
    /\ pc = "gate"
    /\ \E o \in handle_bot_gate(page) :
          /\ page' = o.page
          /\ calls' = o.calls
    /\ pc' = "observe"
    /\ UNCHANGED <<cycle, state, steps, idx, result, final_result, exc, retval,
                   contextClosed, browserClosed, hist, prog, probe, env, user_goal, outcome>>

\* how far the run has followed the walk home page with search box ->
\* results page with one matching tile -> product page with a populated
\* price container, one page per cycle; "off" once it has left it
NextStage(stage, cyc, p) ==
    IF stage = "start" /\ cyc = 1 /\ p = HomePage THEN "home"
    ELSE IF stage = "home" /\ cyc = 2 /\ p = ResultsPage(<<PrimaryAnchor>>)
         THEN "results"
    ELSE IF stage = "results" /\ cyc = 3 /\ p = ProductPage(SecondPrice)
         THEN "product"
    ELSE "off"

\* state = read_page_state(page); locator.all() may raise
Observe ==
    /\ pc = "observe"
    /\ calls' = <<Call("all", "", 0)>>
    /\ \/ /\ state' = read_page_state(page)
          /\ hist' = [hist EXCEPT !.snapshots = @ + 1,
                                   !.stage = NextStage(@, cycle, page)]
          /\ pc' = "plan"
          /\ exc' = exc
       \/ /\ Throw(PageExc)
          /\ state' = state
    /\ UNCHANGED <<cycle, page, steps, idx, result, final_result, retval,
                   contextClosed, browserClosed, prog, probe, env, user_goal, outcome>>

\* steps = ask_llm(user_goal, state); an empty plan breaks the loop
Plan ==
    /\ pc = "plan"
    /\ steps' = ask_llm(user_goal, state)
    /\ hist' = [hist EXCEPT !.plans = @ + 1, !.results = <<>>]
    /\ IF steps' = <<>> THEN pc' = "return" /\ idx' = idx
       ELSE pc' = "act" /\ idx' = 1
    /\ UNCHANGED <<cycle, page, state, result, final_result, exc, retval,
                   contextClosed, browserClosed, calls, prog, probe, env, user_goal, outcome>>

IsSubmitClick(step) ==
    step.action = "click" /\ Get(step, "selector", "None") = SEARCH_SUBMIT

\* after the search-submit click: wait_for_load_state, failure swallowed
AfterSubmit(o) ==
    {[o EXCEPT !.calls = Append(@, Call(w, "domcontentloaded", 8000))]
        : w \in {"wait_for_load_state", "wait_for_load_state:timeout"}}

\* step["action"] of a step without that key
NoActionExc == Exc("KeyError", "'action'")

StepOutcomes(p, step) ==
    IF "action" \notin DOMAIN step THEN {Raised(p, NoActionExc, <<>>)}
    ELSE IF IsSubmitClick(step)
    THEN UNION {IF o.exc = None THEN AfterSubmit(o) ELSE {o} : o \in do_action(p, step)}
    ELSE do_action(p, step)

IsFinal(r) == r # None /\ r[1].prefix = "FINAL:"

\* variant: a Final result is captured but the rest of the plan still runs
ActPastFinal ==
    /\ pc = "act"
    /\ \E o \in StepOutcomes(page, steps[idx]) :
          /\ page' = o.page
          /\ calls' = o.calls
          /\ IF o.exc # None
             THEN /\ Throw(o.exc[1])
                  /\ UNCHANGED <<result, final_result, idx>>
             ELSE /\ result' = o.result
                  /\ exc' = exc
                  /\ final_result' = IF IsFinal(o.result) THEN Some(o.result[1].text)
                                     ELSE final_result
                  /\ hist' = [hist EXCEPT
                                !.finals = IF IsFinal(o.result) THEN @ + 1 ELSE @,
                                !.results = Append(@, o.result[1])]
                  /\ idx' = IF idx = Len(steps) THEN idx ELSE idx + 1
                  /\ pc' = IF idx < Len(steps) THEN "act"
                           ELSE IF final_result' # None THEN "return" ELSE "loop"
    /\ UNCHANGED <<cycle, state, steps, retval, contextClosed, browserClosed,
                   prog, probe, env, user_goal, outcome>>

\* variant: a step that raises is skipped and the plan goes on
ActSwallow ==
    /\ pc = "act"
    /\ \E o \in StepOutcomes(page, steps[idx]) :
          /\ page' = o.page
          /\ calls' = o.calls
          /\ exc' = exc
          /\ IF o.exc = None /\ IsFinal(o.result)
             THEN /\ result' = o.result
                  /\ final_result' = Some(o.result[1].text)
                  /\ hist' = [hist EXCEPT !.finals = @ + 1,
                                          !.results = Append(@, o.result[1])]
                  /\ idx' = idx
                  /\ pc' = "return"
             ELSE /\ result' = IF o.exc = None THEN o.result ELSE result
                  /\ final_result' = final_result
                  /\ hist' = IF o.exc # None THEN hist
                             ELSE [hist EXCEPT !.results = Append(@, o.result[1])]
                  /\ idx' = idx + 1
                  /\ pc' = IF idx = Len(steps) THEN "loop" ELSE "act"
    /\ UNCHANGED <<cycle, state, steps, retval, contextClosed, browserClosed,
                   prog, probe, env, user_goal, outcome>>

\* one step of the plan: do_action, the FINAL check and both breaks
Act ==
    /\ pc = "act"
    /\ \E o \in StepOutcomes(page, steps[idx]) :
          /\ page' = o.page
          /\ calls' = o.calls
          /\ IF o.exc # None
             THEN /\ Throw(o.exc[1])
                  /\ UNCHANGED <<result, final_result, idx>>
             ELSE /\ result' = o.result
                  /\ exc' = exc
                  /\ IF IsFinal(o.result)
                     THEN /\ final_result' = Some(o.result[1].text)
                          /\ hist' = [hist EXCEPT !.finals = @ + 1,
                                                  !.results = Append(@, o.result[1])]
                          /\ idx' = idx
                          /\ pc' = "return"
                     ELSE /\ final_result' = final_result
                          /\ hist' = [hist EXCEPT !.results = Append(@, o.result[1])]
                          /\ idx' = idx + 1
                          /\ pc' = IF idx = Len(steps) THEN "loop" ELSE "act"
    /\ UNCHANGED <<cycle, state, steps, retval, contextClosed, browserClosed,
                   prog, probe, env, user_goal, outcome>>

\* return final_result or "No final answer produced."
OrDefault(fr, default) == IF fr = None \/ fr[1] = "" THEN default ELSE fr[1]

Return ==
    /\ pc = "return"
    /\ retval' = Some(OrDefault(final_result, NoFinalText))
    /\ pc' = "close_context"
    /\ UNCHANGED <<cycle, page, state, steps, idx, result, final_result, exc,
                   contextClosed, browserClosed, calls, hist, prog, probe, env,
                   user_goal, outcome>>

\* finally: context.close() -- if it raises, browser.close() is skipped
CloseContext ==
    /\ pc = "close_context"
    /\ calls' = <<Call("context.close", "", 0)>>
    /\ \/ /\ contextClosed' = TRUE
          /\ hist' = [hist EXCEPT !.contextCloseCalls = @ + 1]
          /\ pc' = "close_browser"
          /\ UNCHANGED <<exc, retval>>
       \/ /\ exc' = Some(PageExc)
          /\ retval' = None
          /\ hist' = [hist EXCEPT !.contextCloseCalls = @ + 1,
                                  !.closeExc = Some(PageExc)]
          /\ pc' = "exit"
          /\ UNCHANGED contextClosed
    /\ UNCHANGED <<cycle, page, state, steps, idx, result, final_result,
                   browserClosed, prog, probe, env, user_goal, outcome>>

\* finally: browser.close()
CloseBrowser ==
    /\ pc = "close_browser"
    /\ calls' = <<Call("browser.close", "", 0)>>
    /\ \/ /\ browserClosed' = TRUE
          /\ hist' = [hist EXCEPT !.browserCloseCalls = @ + 1]
          /\ UNCHANGED <<exc, retval>>
       \/ /\ exc' = Some(PageExc)
          /\ retval' = None
          /\ hist' = [hist EXCEPT !.browserCloseCalls = @ + 1,
                                  !.closeExc = Some(PageExc)]
          /\ UNCHANGED browserClosed
    /\ pc' = "exit"
    /\ UNCHANGED <<cycle, page, state, steps, idx, result, final_result,
                   contextClosed, prog, probe, env, user_goal, outcome>>

\* control is back with agent_run's caller: a value, or the exception
AgentExit ==
    /\ pc = "exit"
    /\ prog = "agent_run"
    /\ outcome' = IF exc # None THEN Some([raised |-> TRUE, exc |-> exc[1], value |-> ""])
                  ELSE Some([raised |-> FALSE, exc |-> Exc("", ""), value |-> retval[1]])
    /\ pc' = "done"
    /\ UNCHANGED <<cycle, page, state, steps, idx, result, final_result, exc,
                   retval, contextClosed, browserClosed, calls, hist, prog, probe,
                   env, user_goal>>

AgentNext ==
    \/ MakeEnv \/ GotoHome \/ LoopHead \/ BotGate \/ Observe \/ Plan \/ Act \/ Return
    \/ CloseContext \/ CloseBrowser \/ AgentExit

(***************************************************************************)
(* robot.py: the scripted runner, run(query), and its teardown             *)
(***************************************************************************)
robot_candidates ==
    << "#corePriceDisplay_desktop_feature_div span.a-offscreen",
       "#apex_desktop span.a-price span.a-offscreen",
       "span#priceblock_ourprice",
       "span#priceblock_dealprice",
       "span.a-price.aok-align-center span.a-offscreen",
       "span.a-price span.a-offscreen" >>

\* extract_price: the first visible candidate with non-empty text, else None
RECURSIVE RobotPriceFrom(_, _)
RobotPriceFrom(prices, i) ==
    IF i > Len(robot_candidates) THEN None
    ELSE IF prices[i].status = "ok" /\ Strip(prices[i].text) # <<>>
         THEN Some(Strip(prices[i].text))
         ELSE RobotPriceFrom(prices, i + 1)
extract_price(p) == RobotPriceFrom(p.prices, 1)

\* get_product_title: the visible title's text, "" when nothing can be read
get_product_title(p) ==
    {<<>>} \cup {Strip(p.dom[i].text) : i \in {j \in 1..Len(p.dom) : p.dom[j] = TitleNode}}

\* is_block_page(page.content())
is_block_page(p) ==
    \E i \in 1..Len(p.dom) : Contains(Lower(p.dom[i].text), <<"type the characters">>)

AsinScan == 12
AsinLen == 10
Min(a, b) == IF a < b THEN a ELSE b

\* get_first_asin: the first of the first 12 containers with a full ASIN
RECURSIVE FirstAsinFrom(_, _)
FirstAsinFrom(asins, i) ==
    IF i > Min(AsinScan, Len(asins)) THEN None
    ELSE IF asins[i] # "" /\ Len(asins[i]) >= AsinLen THEN Some(asins[i])
    ELSE FirstAsinFrom(asins, i + 1)
get_first_asin(p) == FirstAsinFrom(p.asins, 1)

NoRobotPrices == [i \in 1..Len(robot_candidates) |-> Absent]
CaptchaNode == Node(Some("H4"), <<"Type the characters">>, Some(<<"h4">>))
Asin == "B0D1XD1ZV3"
RobotResults(asins) ==
    [Page(ResultsUrl, <<SearchBoxNode>>, <<>>, NoRobotPrices) EXCEPT !.asins = asins]
RobotProduct(dom, prices) == Page(ProductUrl, dom, <<>>, prices)
BlockPage == Page(ResultsUrl, <<CaptchaNode>>, <<>>, NoRobotPrices)

RobotResultPages ==
    { RobotResults(<<>>), RobotResults(<<"", "B0", Asin>>),
      RobotResults([i \in 1..(AsinScan + 1) |-> IF i > AsinScan THEN Asin ELSE ""]),
      BlockPage }
RobotProductPages ==
    { RobotProduct(<<TitleNode>>, [NoRobotPrices EXCEPT ![2] = Shown(<<" ", "$", "199.99">>)]),
      RobotProduct(<<TitleNode>>, [NoRobotPrices EXCEPT ![1] = Shown(<<" ">>), ![3] = Broken]),
      RobotProduct(<<>>, [NoRobotPrices EXCEPT ![6] = Shown(<<"$", "249.00">>)]),
      RobotProduct(<<>>, NoRobotPrices) }

BlockedExc == Exc("RuntimeError", "Blocked by Amazon (captcha / bot gate). Saved debug.html.")
NoAsinExc == Exc("RuntimeError", "Could not find any ASINs in results (see debug.html).")

ErrorText(e) == <<"ERROR: ", e.kind, ": ", e.msg>>

RobotInit ==
    /\ pc = "r_launch"
    /\ prog \in {"api", "cli"}
    /\ env \in [statePath : BOOLEAN, creds : BOOLEAN]
    /\ user_goal = Goal
    /\ Fresh

\* make_browser_context(pw): outside the try block
RobotLaunch ==
    /\ pc = "r_launch"
    /\ calls' = <<Call("launch", "", 0)>>
    /\ \/ /\ hist' = [hist EXCEPT !.session = TRUE]
          /\ pc' = "r_login"
          /\ exc' = exc
       \/ /\ exc' = Some(PageExc)
          /\ pc' = "r_exit"
          /\ hist' = hist
    /\ UNCHANGED <<cycle, page, state, steps, idx, result, final_result, retval,
                   contextClosed, browserClosed, prog, probe, env, user_goal, outcome>>

\* variant: the error text without the exception's class name
RobotCatchNoKind(e) ==
    /\ retval' = Some([title |-> <<>>, price |-> None,
                       url_or_err |-> <<"ERROR: ", e.msg>>])
    /\ hist' = [hist EXCEPT !.bodyExc = Some(e)]
    /\ pc' = "r_persist"

\* except Exception as e: return "", None, f"ERROR: ..."
RobotCatch(e) ==
    /\ retval' = Some([title |-> <<>>, price |-> None, url_or_err |-> ErrorText(e)])
    /\ hist' = [hist EXCEPT !.bodyExc = Some(e)]
    /\ pc' = "r_persist"

\* ensure_logged_in: a no-op without credentials; its gotos may raise
RobotLogin ==
    /\ pc = "r_login"
    /\ \/ /\ ~env.creds
          /\ calls' = <<>>
          /\ pc' = "r_search"
          /\ UNCHANGED <<retval, hist>>
       \/ /\ env.creds
          /\ calls' = <<Call("goto", "url", 0)>>
          /\ \/ pc' = "r_search" /\ UNCHANGED <<retval, hist>>
             \/ \E e \in {TimeoutExc, PageExc} : RobotCatch(e)
    /\ UNCHANGED <<cycle, page, state, steps, idx, result, final_result, exc,
                   contextClosed, browserClosed, prog, probe, env, user_goal, outcome>>

\* search(page, query): goto the results URL, wait for the results grid;
\* on a wait timeout a block page raises RuntimeError, else the timeout
RobotSearch ==
    /\ pc = "r_search"
    /\ \/ /\ calls' = <<Call("goto", "url", 0)>>
          /\ page' = page
          /\ \E e \in {TimeoutExc, PageExc} : RobotCatch(e)
       \/ \E q \in RobotResultPages :
             /\ page' = q
             /\ calls' = <<Call("goto", "url", 0),
                           Call("wait_for_selector", "div.s-main-slot", 15000)>>
             /\ \/ pc' = "r_open" /\ UNCHANGED <<retval, hist>>
                \/ RobotCatch(IF is_block_page(q) THEN BlockedExc ELSE TimeoutExc)
    /\ UNCHANGED <<cycle, state, steps, idx, result, final_result, exc,
                   contextClosed, browserClosed, prog, probe, env, user_goal, outcome>>

\* open_first_result(page); handle_consent_and_region(page)
RobotOpen ==
    /\ pc = "r_open"
    /\ calls' = <<Call("count", "div.s-main-slot [data-asin]", 0)>>
    /\ IF get_first_asin(page) = None
       THEN page' = page /\ RobotCatch(NoAsinExc)
       ELSE \/ page' = page /\ RobotCatch(TimeoutExc)
            \/ /\ page' \in RobotProductPages
               /\ pc' = "r_extract"
               /\ UNCHANGED <<retval, hist>>
    /\ UNCHANGED <<cycle, state, steps, idx, result, final_result, exc,
                   contextClosed, browserClosed, prog, probe, env, user_goal, outcome>>

\* price = extract_price(page); title = get_product_title(page);
\* url = page.url; return title, price, url
RobotExtract ==
    /\ pc = "r_extract"
    /\ \E t \in get_product_title(page) :
          retval' = Some([title |-> t, price |-> extract_price(page),
                          url_or_err |-> page.url])
    /\ pc' = "r_persist"
    /\ calls' = <<Call("is_visible", "price", 2000)>>
    /\ UNCHANGED <<cycle, page, state, steps, idx, result, final_result, exc,
                   contextClosed, browserClosed, hist, prog, probe, env, user_goal,
                   outcome>>

\* variant: a failing storage_state leaves cleanup_browser at once
RobotPersistFatal ==
    /\ pc = "r_persist"
    /\ IF env.statePath
       THEN /\ calls' = <<Call("storage_state", "", 0)>>
            /\ \E failed \in BOOLEAN :
                  /\ hist' = [hist EXCEPT !.persistCalls = @ + 1,
                                          !.persistFailed = failed]
                  /\ pc' = IF failed THEN "r_exit" ELSE "r_close_context"
       ELSE pc' = "r_close_context" /\ UNCHANGED <<calls, hist>>
    /\ UNCHANGED <<cycle, page, state, steps, idx, result, final_result, exc,
                   retval, contextClosed, browserClosed, prog, probe, env, user_goal,
                   outcome>>

\* cleanup_browser, first part: context.storage_state(path=...), failure printed
RobotPersist ==
    /\ pc = "r_persist"
    /\ IF env.statePath
       THEN /\ calls' = <<Call("storage_state", "", 0)>>
            /\ \E failed \in BOOLEAN :
                  hist' = [hist EXCEPT !.persistCalls = @ + 1,
                                       !.persistFailed = failed]
       ELSE UNCHANGED <<calls, hist>>
    /\ pc' = "r_close_context"
    /\ UNCHANGED <<cycle, page, state, steps, idx, result, final_result, exc,
                   retval, contextClosed, browserClosed, prog, probe, env, user_goal,
                   outcome>>

\* cleanup_browser: try: context.close() except Exception: pass
RobotCloseContext ==
    /\ pc = "r_close_context"
    /\ calls' = <<Call("context.close", "", 0)>>
    /\ \/ /\ contextClosed' = TRUE
          /\ hist' = [hist EXCEPT !.contextCloseCalls = @ + 1]
       \/ /\ contextClosed' = contextClosed
          /\ hist' = [hist EXCEPT !.contextCloseCalls = @ + 1,
                                  !.closeExc = Some(PageExc)]
    /\ pc' = "r_close_browser"
    /\ UNCHANGED <<cycle, page, state, steps, idx, result, final_result, exc,
                   retval, browserClosed, prog, probe, env, user_goal, outcome>>

\* cleanup_browser: try: browser.close() except Exception: pass
RobotCloseBrowser ==
    /\ pc = "r_close_browser"
    /\ calls' = <<Call("browser.close", "", 0)>>
    /\ \/ /\ browserClosed' = TRUE
          /\ hist' = [hist EXCEPT !.browserCloseCalls = @ + 1]
       \/ /\ browserClosed' = browserClosed
          /\ hist' = [hist EXCEPT !.browserCloseCalls = @ + 1,
                                  !.closeExc = Some(PageExc)]
    /\ pc' = "r_exit"
    /\ UNCHANGED <<cycle, page, state, steps, idx, result, final_result, exc,
                   retval, contextClosed, prog, probe, env, user_goal, outcome>>

(***************************************************************************)
(* The request layer: app.py's run_agent and robot.py's main --json        *)
(***************************************************************************)
Truthy(price) == price # None /\ price[1] # <<>>
OrText(s, default) == IF s = <<>> THEN default ELSE s

\* mutant: the failure response passes url_or_err on as the url too
run_agent_leaky(query, title, price, url_or_err) ==
    IF Truthy(price)
    THEN [status |-> "SUCCESS", query |-> query, title |-> Some(title),
          price |-> price, url |-> Some(url_or_err), reason |-> None]
    ELSE [status |-> "FAILURE", query |-> query, title |-> None, price |-> None,
          url |-> Some(url_or_err),
          reason |-> Some(OrText(url_or_err, <<"Price not found">>))]

\* app.py: RunResponse from the triple
run_agent(query, title, price, url_or_err) ==
    IF Truthy(price)
    THEN [status |-> "SUCCESS", query |-> query, title |-> Some(title),
          price |-> price, url |-> Some(url_or_err), reason |-> None]
    ELSE [status |-> "FAILURE", query |-> query, title |-> None, price |-> None,
          url |-> None,
          reason |-> Some(OrText(url_or_err, <<"Price not found">>))]

\* app.py: HTTPException(500) detail when run_robot raises
server_crash(query, e) ==
    [status |-> "FAILURE", query |-> query,
     reason |-> Some(<<"SERVER_CRASH: ", e.kind, ": ", e.msg>>)]

\* robot.py main --json: the dict printed
main_json(query, title, price, url_or_err) ==
    IF Truthy(price)
    THEN [status |-> "SUCCESS", query |-> query, title |-> Some(title),
          price |-> price, url |-> Some(url_or_err)]
    ELSE [status |-> "FAILURE", query |-> query,
          reason |-> Some(OrText(url_or_err, <<"Price not found">>))]

\* control is back with run's caller, which shapes the outcome
Respond ==
    /\ pc = "r_exit"
    /\ outcome' =
          IF exc # None
          THEN IF prog = "api" THEN Some(server_crash(user_goal, exc[1]))
               ELSE Some([raised |-> TRUE, exc |-> exc[1], value |-> ""])
          ELSE LET t == retval[1]
               IN  IF prog = "api"
                   THEN Some(run_agent(user_goal, t.title, t.price, t.url_or_err))
                   ELSE Some(main_json(user_goal, t.title, t.price, t.url_or_err))
    /\ pc' = "done"
    /\ UNCHANGED <<cycle, page, state, steps, idx, result, final_result, exc,
                   retval, contextClosed, browserClosed, calls, hist, prog, probe,
                   env, user_goal>>

RobotNext ==
    \/ RobotLaunch \/ RobotLogin \/ RobotSearch \/ RobotOpen \/ RobotExtract
    \/ RobotPersist \/ RobotCloseContext \/ RobotCloseBrowser \/ Respond

(***************************************************************************)
(* The programs: agent_run (agent_driver.py), POST /run (app.py) and the   *)
(* robot.py CLI                                                            *)
(***************************************************************************)
Init == AgentInit \/ RobotInit
Next == AgentNext \/ RobotNext
Spec == Init /\ [][Next]_vars

(***************************************************************************)
(* The planner on its own: ask_llm applied to every snapshot of up to      *)
(* MaxElems elements over the texts, selector guesses and URLs below.      *)
(***************************************************************************)
MaxElems == 2

ElemTexts ==
    { <<>>,
      <<"Continue", " ", "shopping">>,
      <<" ", "x", " ", "CONTINUE", " ", "SHOPPING", " ">>,
      <<"Continue", " ", "x", " ", "shopping">> }
ElemSels ==
    { None,
      Some(<<"#", "twotabsearchtextbox">>),
      Some(<<"input", "#", "TwoTabSearchTextBox">>),
      Some(<<"a", ".", "nav">>) }
Elems ==
    {Node(Some("A"), t, g) : t \in ElemTexts, g \in ElemSels}
    \cup {GateNode, SearchBoxNode}
\* the live page while the planner runs
PlannerPages == {BlankPage, HomePage}
Urls ==
    { HomeUrl, ResultsUrl, ProductUrl, ResultsDpUrl, SigninUrl, BlankUrl,
      ForeignResultsUrl, ForeignProductUrl }
Snapshots == UNION {[1..n -> Elems] : n \in 0..MaxElems}

PlannerInit ==
    /\ pc = "plan"
    /\ prog = "agent_run"
    /\ env = NoEnv
    /\ user_goal \in Goals
    /\ cycle = 1
    /\ page \in PlannerPages
    /\ state \in {[url |-> u, snapshot |-> sn] : u \in Urls, sn \in Snapshots}
    /\ steps = <<>>
    /\ idx = 0
    /\ result = None
    /\ final_result = None
    /\ exc = None
    /\ retval = None
    /\ contextClosed = FALSE
    /\ browserClosed = FALSE
    /\ calls = <<>>
    /\ hist = [NoHist EXCEPT !.session = TRUE, !.snapshots = 1]
    /\ outcome = None
    /\ probe = None

PlannerNext == Plan
SpecPlanner == PlannerInit /\ [][PlannerNext]_vars

(***************************************************************************)
(* The resolution policies on their own: find_first_product_link,          *)
(* extract_price_text and do_action(extract_text __PRICE__) applied to     *)
(* every page of up to MaxAnchors anchors, and to every combination of     *)
(* what the five price candidates find.                                    *)
(***************************************************************************)
MaxAnchors == 2

AnchorKinds == {PrimaryAnchor, LooseAnchor, AnyAnchor, PlainAnchor}
AnchorLists == UNION {[1..n -> AnchorKinds] : n \in 0..MaxAnchors}
PriceFinds ==
    { Absent, Broken, Shown(<<>>), Shown(<<" ">>), Shown(<<"$", "199.99">>),
      Shown(<<" ", "$", "249.00", " ">>) }
ResolvePages ==
    {ResultsPage(a) : a \in AnchorLists}
    \cup {ProductPage(pr) : pr \in [1..Len(candidate_selectors) -> PriceFinds]}

ResolveInit ==
    /\ pc = "resolve"
    /\ prog = "agent_run"
    /\ env = NoEnv
    /\ user_goal = Goal
    /\ cycle = 0
    /\ page \in ResolvePages
    /\ state = [url |-> <<>>, snapshot |-> <<>>]
    /\ steps = <<>>
    /\ idx = 0
    /\ result = None
    /\ final_result = None
    /\ exc = None
    /\ retval = None
    /\ contextClosed = FALSE
    /\ browserClosed = FALSE
    /\ calls = <<>>
    /\ hist = [NoHist EXCEPT !.session = TRUE]
    /\ outcome = None
    /\ probe = None

Probed(fn, out) ==
    /\ pc = "resolve"
    /\ probe' = Some([fn |-> fn, out |-> out])
    /\ pc' = "resolved"
    /\ UNCHANGED <<cycle, page, state, steps, idx, result, final_result, exc,
                   retval, contextClosed, browserClosed, calls, hist, prog, env,
                   user_goal, outcome>>

FindLink == Probed("find_first_product_link", find_first_product_link(page))
ExtractPrice == Probed("extract_price_text", extract_price_text(page))
ExtractPriceAction ==
    \E o \in do_action(page, [action |-> "extract_text", selector |-> PRICE]) :
        Probed("do_action", o)

\* do_action applied to the click and wait_for_selector steps the planner
\* emits on the home and results pages, and to a wait on a literal
\* product-link pattern, on every results page
ClickSteps ==
    { [action |-> "click", selector |-> FIRST_PRODUCT_LINK],
      [action |-> "click", selector |-> SEARCH_SUBMIT] }
WaitSteps ==
    { [action |-> "wait_for_selector", selector |-> FIRST_PRODUCT_LINK],
      [action |-> "wait_for_selector", selector |-> SEARCH_BOX],
      [action |-> "wait_for_selector", selector |-> PRODUCT_TITLE],
      [action |-> "wait_for_selector", selector |-> LINK_ANY] }

ClickAction ==
    /\ page.url = ResultsUrl
    /\ \E step \in ClickSteps : \E o \in do_action(page, step) :
          Probed("click", [step |-> step, o |-> o])
WaitAction ==
    /\ page.url = ResultsUrl
    /\ \E step \in WaitSteps : \E o \in do_action(page, step) :
          Probed("wait_for_selector", [step |-> step, o |-> o])

ResolveNext ==
    FindLink \/ ExtractPrice \/ ExtractPriceAction \/ ClickAction \/ WaitAction
SpecResolve == ResolveInit /\ [][ResolveNext]_vars

(***************************************************************************)
(* The orchestrator under a planner stub: agent_run with ask_llm replaced  *)
(* by a planner that may return any of the plans below, among them plans   *)
(* with a final_answer in the middle, with an empty final text, with no    *)
(* steps and with an action name the executor does not know.               *)
(***************************************************************************)
FinalStep(text) == [action |-> "final_answer", result |-> text]

StubPlans ==
    { <<>>,
      << [action |-> "goto", url |-> HomeUrl] >>,
      << FinalStep("done"), [action |-> "goto", url |-> HomeUrl] >>,
      << [action |-> "wait_for_selector", selector |-> SEARCH_BOX],
         FinalStep("found"),
         [action |-> "click", selector |-> SEARCH_SUBMIT],
         FinalStep("late") >>,
      << [action |-> "hover", selector |-> SEARCH_BOX], FinalStep("") >>,
      << [action |-> "goto", url |-> HomeUrl], [action |-> "scroll"] >>,
      << [selector |-> SEARCH_BOX] >> }

\* steps = ask_llm(user_goal, state) with the stub in place of ask_llm
StubPlan ==
    /\ pc = "plan"
    /\ steps' \in StubPlans
    /\ hist' = [hist EXCEPT !.plans = @ + 1, !.results = <<>>]
    /\ IF steps' = <<>> THEN pc' = "return" /\ idx' = idx
       ELSE pc' = "act" /\ idx' = 1
    /\ UNCHANGED <<cycle, page, state, result, final_result, exc, retval,
                   contextClosed, browserClosed, calls, prog, probe, env, user_goal, outcome>>

StubNext ==
    \/ MakeEnv \/ GotoHome \/ LoopHead \/ BotGate \/ Observe \/ StubPlan \/ Act
    \/ Return \/ CloseContext \/ CloseBrowser \/ AgentExit
SpecStub == AgentInit /\ [][StubNext]_vars

(***************************************************************************)
(* The page state reader on its own: read_page_state applied to documents  *)
(* around the three caps.  A document of n candidates keeps every          *)
(* period-th one (an <a> or a heading, each with its own id); the first    *)
(* kept ones carry an inner text of textLen characters, padded with        *)
(* white space when pad is set.                                            *)
(***************************************************************************)
MaxOver == 4

DomLens ==
    {0, 1, SnapshotCap - 1, SnapshotCap, SnapshotCap + 1, RawCap - 1, RawCap}
    \cup {RawCap + k : k \in 1..MaxOver}
Periods == 1..MaxOver
TextLens == {0, 1, TextCap - 1, TextCap, TextCap + 1}

LongText(textLen, pad) ==
    (IF pad THEN <<" ">> ELSE <<>>) \o [j \in 1..textLen |-> "x"]
    \o (IF pad THEN <<" ", " ">> ELSE <<>>)

ReaderNode(i, period, textLen, pad) ==
    LET id == Some(<<"#", "n", ToString(i)>>)
    IN  IF i % period # 0 THEN Node(Some("DIV"), <<>>, id)
        ELSE Node(IF i % 2 = 0 THEN Some("A") ELSE Some("H2"),
                  IF i <= 2 * period THEN LongText(textLen, pad) ELSE <<"x">>,
                  id)

ReaderPages ==
    { Page(ProductUrl, [i \in 1..n |-> ReaderNode(i, period, textLen, pad)],
           <<>>, NoPrices)
        : n \in DomLens, period \in Periods, textLen \in TextLens,
          pad \in BOOLEAN }

MaxBroken == 2

RichInput ==
    [tag |-> Some("INPUT"), text |-> <<>>, role |-> Some("searchbox"),
     placeholder |-> Some("Search Amazon"), aria_label |-> Some("Search"),
     selector_guess |-> Some(<<"#", "twotabsearchtextbox">>)]
RichHeading ==
    [tag |-> Some("H2"), text |-> <<" ", "Results", " ">>, role |-> Some("heading"),
     placeholder |-> None, aria_label |-> Some("Results"),
     selector_guess |-> Some(<<"h2", ".", "a-size-medium">>)]
RichPrice ==
    [tag |-> Some("SPAN"), text |-> <<"$", "199.99">>, role |-> None,
     placeholder |-> None, aria_label |-> Some("price"),
     selector_guess |-> Some(<<"span", ".", "a-offscreen">>)]
RichNodes == {RichInput, RichHeading, RichPrice}

BrokenCandidates ==
    { [Page(ProductUrl, dom, <<>>, NoPrices) EXCEPT !.broken = b]
        : dom \in { <<m>> : m \in RichNodes } \cup (RichNodes \X RichNodes),
          b \in { c \in SUBSET ((1..2) \X Attributes) : Cardinality(c) <= MaxBroken } }

\* pages some of whose attribute reads raise
BrokenPages ==
    { p \in BrokenCandidates : \A f \in p.broken : f[1] <= Len(p.dom) }

ReaderInit ==
    /\ pc = "observe"
    /\ prog = "agent_run"
    /\ env = NoEnv
    /\ user_goal = Goal
    /\ cycle = 1
    /\ page \in ReaderPages \cup BrokenPages
    /\ state = [url |-> <<>>, snapshot |-> <<>>]
    /\ steps = <<>>
    /\ idx = 0
    /\ result = None
    /\ final_result = None
    /\ exc = None
    /\ retval = None
    /\ contextClosed = FALSE
    /\ browserClosed = FALSE
    /\ calls = <<>>
    /\ hist = [NoHist EXCEPT !.session = TRUE]
    /\ outcome = None
    /\ probe = None

ReaderNext == Observe
SpecReader == ReaderInit /\ [][ReaderNext]_vars

(***************************************************************************)
(* Properties                                                              *)
(***************************************************************************)
AtExit == pc \in {"exit", "r_exit", "done"}
InFinally == pc \in {"close_context", "close_browser", "exit", "done"}

\* C1: a run of agent_run in which no action yields a Final result and
\* nothing raises makes exactly MaxCycles (10) snapshots and planner calls,
\* never an 11th, and its return statement yields "No final answer produced."
C1_ExactBudget ==
    (prog = "agent_run" /\ hist.session) =>
        /\ hist.snapshots <= MaxCycles
        /\ hist.plans <= MaxCycles
        /\ (InFinally /\ hist.finals = 0 /\ hist.bodyExc = None) =>
              /\ hist.snapshots = MaxCycles
              /\ hist.plans = MaxCycles
              /\ cycle = MaxCycles
              /\ hist.closeExc = None => retval = Some("No final answer produced.")
              /\ (outcome # None /\ ~outcome[1].raised) =>
                    outcome[1].value = "No final answer produced."

C1_Witness ==
    /\ prog = "agent_run" /\ pc = "done"
    /\ hist.finals = 0 /\ hist.bodyExc = None
    /\ hist.snapshots = 10 /\ hist.plans = 10
    /\ outcome # None /\ ~outcome[1].raised
    /\ outcome[1].value = "No final answer produced."

C3_NeverRaises ==
    (prog = "agent_run" /\ pc = "done" /\ hist.bodyExc # None
        /\ hist.closeExc = None) =>
        outcome # None /\ ~outcome[1].raised

Carries(o, f) == f \in DOMAIN o /\ o[f] # None

\* C4: the outcome shaped from run's (title, price, url_or_err) triple is
\* SUCCESS iff the price is non-empty; SUCCESS carries the triple's title,
\* price and url and no reason; FAILURE carries a reason and none of title,
\* price, url.
C4_StatusIffPrice ==
    (pc = "done" /\ prog \in {"api", "cli"} /\ retval # None) =>
        LET o == outcome[1]
            t == retval[1]
        IN  /\ o.status \in {"SUCCESS", "FAILURE"}
            /\ o.status = "SUCCESS" <=> (t.price # None /\ t.price[1] # <<>>)
            /\ o.status = "SUCCESS" =>
                  /\ Carries(o, "title") /\ o.title = Some(t.title)
                  /\ Carries(o, "price") /\ o.price = t.price
                  /\ Carries(o, "url") /\ o.url = Some(t.url_or_err)
                  /\ ~Carries(o, "reason")
            /\ o.status = "FAILURE" =>
                  /\ Carries(o, "reason") /\ o.reason[1] # <<>>
                  /\ ~Carries(o, "title") /\ ~Carries(o, "price")
                  /\ ~Carries(o, "url")

C4_Witness ==
    /\ pc = "done" /\ prog = "api" /\ retval # None
    /\ outcome[1].status = "SUCCESS"
    /\ outcome[1].price = Some(<<"$", "199.99">>)
    /\ outcome[1].reason = None

\* C5: a run of robot.run that reaches the product page without any
\* exception and finds no price ends as FAILURE with reason exactly
\* "Price not found".
C5_PriceNotFound ==
    (pc = "done" /\ prog \in {"api", "cli"} /\ retval # None
        /\ hist.bodyExc = None /\ retval[1].price = None) =>
        /\ outcome[1].status = "FAILURE"
        /\ outcome[1].reason = Some(<<"Price not found">>)

\* the state right after the planner was called
Planned == pc \in {"act", "return"} /\ idx <= 1 /\ hist.plans > 0

GateSignal(snapshot) ==
    \E i \in 1..Len(snapshot) :
        Contains(Lower(snapshot[i].text), <<"continue", " ", "shopping">>)
BoxSignal(snapshot) ==
    \E i \in 1..Len(snapshot) :
        /\ snapshot[i].selector_guess # None
        /\ Contains(Lower(snapshot[i].selector_guess[1]), <<"twotabsearchtextbox">>)

\* C6: for a snapshot in which some element text contains "continue
\* shopping" (any case) and no selector guess names the search box, the plan
\* is exactly [click "text=Continue shopping", wait for the search box],
\* whatever the URL.
C6_GateFirst ==
    (Planned /\ GateSignal(state.snapshot) /\ ~BoxSignal(state.snapshot)) =>
        steps = << [action |-> "click", selector |-> "text=Continue shopping"],
                   [action |-> "wait_for_selector",
                    selector |-> "#twotabsearchtextbox"] >>

C6_Witness ==
    /\ Planned
    /\ state.url = ResultsDpUrl
    /\ GateSignal(state.snapshot) /\ ~BoxSignal(state.snapshot)
    /\ Len(steps) = 2 /\ steps[1].action = "click"
    /\ steps[1].selector = "text=Continue shopping"

NoRuleMatches(st) ==
    /\ ~(GateSignal(st.snapshot) /\ ~BoxSignal(st.snapshot))
    /\ ~(/\ Contains(st.url, <<"amazon.com">>)
         /\ ~Contains(st.url, <<"s?k=">>)
         /\ ~Contains(st.url, <<"/dp/">>)
         /\ BoxSignal(st.snapshot))
    /\ ~Contains(st.url, <<"s?k=">>)
    /\ ~Contains(st.url, <<"/dp/">>)

\* C7: the planner never returns an empty plan, and for a snapshot matching
\* none of the gate, home, results and product rules it returns exactly
\* [goto the site root, wait for the search box].
C7_ResetFallback ==
    Planned =>
        /\ steps # <<>>
        /\ NoRuleMatches(state) =>
              steps = << [action |-> "goto", url |-> HomeUrl],
                         [action |-> "wait_for_selector",
                          selector |-> "#twotabsearchtextbox"] >>

C7_Witness ==
    /\ Planned
    /\ state.url = SigninUrl /\ state.snapshot # <<>>
    /\ NoRuleMatches(state)
    /\ Len(steps) = 2 /\ steps[1].action = "goto"

ProbeOf(fn) == probe # None /\ probe[1].fn = fn

\* the candidates that are attached and have non-empty trimmed text
Populated(prices) ==
    {i \in 1..Len(prices) : prices[i].status = "ok" /\ Strip(prices[i].text) # <<>>}
Least(S) == CHOOSE k \in S : \A j \in S : k <= j

\* C8: extract_price_text returns the trimmed text of the first candidate,
\* in the fixed order of the five selectors, that is attached and non-empty,
\* having queried exactly the candidates up to it and none after it.
C8_FirstPopulated ==
    ProbeOf("extract_price_text") =>
        LET out == probe[1].out
            good == Populated(page.prices)
        IN  /\ Len(page.prices) = 5
            /\ good # {} =>
                  /\ out.text = Strip(page.prices[Least(good)].text)
                  /\ out.queried = SubSeq(candidate_selectors, 1, Least(good))
            /\ good = {} => out.queried = candidate_selectors

C8_Witness ==
    /\ ProbeOf("extract_price_text")
    /\ Populated(page.prices) = {2, 5}
    /\ page.prices[1] = Shown(<<" ">>)
    /\ probe[1].out.text = <<"$", "249.00">>
    /\ Len(probe[1].out.queried) = 2

\* C9: when every price candidate times out, raises or is empty,
\* extract_price_text returns the empty string, and do_action on
\* extract_text of __PRICE__ never raises: it returns "extracted:" with the
\* resolved text, empty when no candidate is populated.
C9_EmptyPriceIsSoft ==
    /\ (ProbeOf("extract_price_text") /\ Populated(page.prices) = {}) =>
          probe[1].out.text = <<>>
    /\ ProbeOf("do_action") =>
          LET o == probe[1].out
          IN  /\ o.exc = None
              /\ o.result # None
              /\ o.result[1].prefix = "extracted:"
              /\ Populated(page.prices) = {} => o.result[1].text = <<>>

C9_Witness ==
    /\ ProbeOf("do_action")
    /\ page.prices[1] = Absent /\ page.prices[2] = Broken
    /\ page.prices[3] = Shown(<<>>) /\ page.prices[4] = Shown(<<" ">>)
    /\ page.prices[5] = Broken
    /\ probe[1].out.exc = None
    /\ probe[1].out.result = Some([prefix |-> "extracted:", text |-> <<>>])

HasAnchor(p, inSlotH2, dp) ==
    \E i \in 1..Len(p.anchors) :
        /\ inSlotH2 => p.anchors[i].inSlotH2
        /\ dp => p.anchors[i].dp

\* C10: find_first_product_link returns the first pattern with a match, in
\* the order scoped heading link with /dp/, scoped heading link, any link
\* with /dp/; it returns None exactly when none of the three matches.
C10_FirstPattern ==
    ProbeOf("find_first_product_link") =>
        probe[1].out =
            IF HasAnchor(page, TRUE, TRUE)
            THEN Some("div.s-main-slot h2 a[href*='/dp/']")
            ELSE IF HasAnchor(page, TRUE, FALSE) THEN Some("div.s-main-slot h2 a")
            ELSE IF HasAnchor(page, FALSE, TRUE) THEN Some("a[href*='/dp/']")
            ELSE None

C10_Witness ==
    /\ ProbeOf("find_first_product_link")
    /\ page.anchors = <<AnyAnchor, LooseAnchor>>
    /\ probe[1].out = Some("div.s-main-slot h2 a")

\* the raw candidates read_page_state looks at, and whether it keeps one
RawCount(dom) == Min(Len(dom), RawCap)
KeptAt(dom, i) == Keep(dom[i], Strip(dom[i].text))

\* C11: every snapshot has at most 60 elements, each with a text of at
\* most 200 characters, and its k-th element is the summary of the k-th
\* retained node among the first 200 raw candidates (so the snapshot is the
\* first 60 retained ones, in document order).
C11_SnapshotCaps ==
    pc = "plan" =>
        LET dom == Extracted(page)
            snap == state.snapshot
            K == {i \in 1..RawCount(dom) : KeptAt(dom, i)}
        IN  /\ Len(snap) <= 60
            /\ Len(snap) = Min(Cardinality(K), 60)
            /\ \A k \in 1..Len(snap) :
                  /\ Len(snap[k].text) <= 200
                  /\ \E i \in K :
                        /\ dom[i].selector_guess = snap[k].selector_guess
                        /\ Cardinality({j \in K : j <= i}) = k
                        /\ snap[k] = [dom[i] EXCEPT
                                        !.text = Take(Strip(dom[i].text), 200)]

\* a full snapshot of a document with more than 200 candidates and more
\* than 60 retained ones, whose first text was cut to 200 characters
C11_Witness ==
    /\ pc = "plan"
    /\ Len(page.dom) > RawCap
    /\ Cardinality({i \in 1..RawCount(page.dom) : KeptAt(page.dom, i)}) > SnapshotCap
    /\ Len(state.snapshot) = SnapshotCap
    /\ Len(state.snapshot[1].text) = TextCap
    /\ \E i \in 1..Len(page.dom) :
          /\ KeptAt(page.dom, i)
          /\ Len(Strip(page.dom[i].text)) > TextCap
          /\ state.snapshot[1].selector_guess = page.dom[i].selector_guess

\* C12: a run that starts on the home page with the search box, in which
\* every action succeeds and the site moves home -> search results ->
\* product page with a populated price container, reaches the final answer
\* within the iteration budget, and its final outcome is SUCCESS carrying
\* that price, a non-empty title and a URL matching the /dp/ pattern.
C12_ScenarioA ==
    (prog = "agent_run" /\ pc = "done" /\ hist.stage = "product"
        /\ hist.bodyExc = None /\ hist.closeExc = None) =>
        LET o == outcome[1]
        IN  /\ hist.finals = 1 /\ cycle <= MaxCycles
            /\ ~o.raised
            /\ Carries(o, "status") /\ o.status = "SUCCESS"
            /\ Carries(o, "price") /\ o.price = Some(PriceText)
            /\ Carries(o, "title") /\ o.title[1] # <<>>
            /\ Carries(o, "url") /\ Contains(o.url[1], <<"/dp/">>)

\* what does hold of that run: the final answer is reached in the third
\* cycle and the informational text of the plan is returned
C12_ReachesFinal ==
    (prog = "agent_run" /\ pc = "done" /\ hist.stage = "product"
        /\ hist.bodyExc = None /\ hist.closeExc = None) =>
        /\ hist.finals = 1 /\ cycle = 3
        /\ outcome[1].value = "Scraped price and title from product page"

\* what of a snapshot the claim lets the planner read: the URL and each
\* element's text and selector guess
Bare(st) ==
    [url |-> st.url,
     snapshot |-> [k \in 1..Len(st.snapshot) |->
                      [text |-> st.snapshot[k].text,
                       selector_guess |-> st.snapshot[k].selector_guess]]]

\* C13: the action list the planner returns is a function of the goal, the
\* snapshot URL and the snapshot elements' text and selector guesses alone:
\* it is the list obtained from the snapshot stripped of every other field,
\* whatever the live page shows and whatever tag the elements have.
C13_PlannerPure ==
    Planned => steps = ask_llm(user_goal, Bare(state))

\* a plan made from a snapshot with a <button> element while the live page
\* is the home page, which no rule looked at
C13_Witness ==
    /\ Planned
    /\ page = HomePage
    /\ state.url = BlankUrl
    /\ \E k \in 1..Len(state.snapshot) : state.snapshot[k].tag = Some("BUTTON")
    /\ steps = GatePlan

RobotTeardown == {"r_persist", "r_close_context", "r_close_browser", "r_exit", "done"}

\* C14: in robot.py, session state is persisted at most once and only
\* inside the teardown, after the body of run has returned; whether or not
\* persisting failed, context.close() and browser.close() have each been
\* attempted once when the teardown is over, and no exception leaves it.
C14_PersistBestEffort ==
    (prog \in {"api", "cli"} /\ hist.session) =>
        /\ hist.persistCalls <= 1
        /\ hist.persistCalls = 1 =>
              /\ env.statePath /\ retval # None
              /\ pc \in RobotTeardown \ {"r_persist"}
        /\ pc \in {"r_exit", "done"} =>
              /\ hist.contextCloseCalls = 1
              /\ hist.browserCloseCalls = 1
              /\ exc = None

\* a run whose storage_state call failed and whose context and browser
\* were closed all the same
C14_Witness ==
    /\ prog \in {"api", "cli"} /\ pc = "done"
    /\ hist.persistCalls = 1 /\ hist.persistFailed
    /\ hist.contextCloseCalls = 1 /\ hist.browserCloseCalls = 1
    /\ contextClosed /\ browserClosed
    /\ exc = None

\* C15: when login, search, opening the first result or extraction raises,
\* robot.run returns ("", no price, "ERROR: <kind>: <message>") and does not
\* raise, and the request layer answers FAILURE with that text as reason.
C15_ErrorTriple ==
    (prog \in {"api", "cli"} /\ hist.bodyExc # None /\ pc \in RobotTeardown) =>
        LET e == hist.bodyExc[1]
            text == <<"ERROR: ", e.kind, ": ", e.msg>>
        IN  /\ retval = Some([title |-> <<>>, price |-> None, url_or_err |-> text])
            /\ exc = None
            /\ pc = "done" =>
                  /\ outcome[1].status = "FAILURE"
                  /\ outcome[1].reason = Some(text)

\* the search was answered with a block page: the run returned the error
\* triple and the caller got a FAILURE naming the RuntimeError
C15_Witness ==
    /\ prog = "api" /\ pc = "done"
    /\ hist.bodyExc = Some(BlockedExc)
    /\ retval[1].title = <<>> /\ retval[1].price = None
    /\ outcome[1].status = "FAILURE"
    /\ outcome[1].reason = Some(<<"ERROR: ", "RuntimeError", ": ", BlockedExc.msg>>)

CloseCalls == {<<Call("context.close", "", 0)>>, <<Call("browser.close", "", 0)>>}

\* C16: once a Final result has been captured, no step changes the page,
\* the last result, the plan or its position (no further action), the
\* cycle count, the snapshot or the numbers of snapshots, planner calls and
\* Final results (no further cycle), the only page calls left are the two
\* close calls of the teardown, and the value returned is the captured
\* final text.
C16_FinalStopsRun ==
    [][final_result # None =>
          /\ UNCHANGED <<page, result, steps, idx, cycle, state, final_result>>
          /\ hist'.snapshots = hist.snapshots
          /\ hist'.plans = hist.plans
          /\ hist'.finals = hist.finals
          /\ calls' = calls \/ calls' \in CloseCalls
          /\ pc' \in {"close_context", "close_browser", "exit", "done"}
          /\ (retval' # None /\ final_result[1] # "") => retval' = final_result
          /\ (outcome' # None /\ ~outcome'[1].raised /\ final_result[1] # "") =>
                outcome'[1].value = final_result[1]]_vars

\* a run ended by a Final result in the middle of a plan, in an early
\* cycle, with the final text as the value returned
C16_Witness ==
    /\ prog = "agent_run" /\ pc = "done"
    /\ final_result = Some("found")
    /\ idx = 2 /\ Len(steps) = 4
    /\ cycle < MaxCycles
    /\ hist.finals = 1
    /\ outcome[1].value = "found"

\* the positions of a call log at which one of the ops was called
At(c, ops) == {k \in 1..Len(c) : c[k].op \in ops}
ClickOps == {"click", "click:timeout", "click:error"}
WaitOps == {"wait_for_selector", "wait_for_selector:timeout", "wait_for_selector:error"}
ScrollOps == {"scroll_into_view_if_needed", "scroll_into_view_if_needed:timeout"}

\* C17: a click whose selector wait succeeded makes at most two click
\* attempts; a second one is made only when the first timed out and right
\* after a scroll of the same element into view; when the second times out
\* too the action raises (Playwright's TimeoutError) and returns no result.
C17_ClickRetry ==
    ProbeOf("click") =>
        LET o == probe[1].out.o
            c == o.calls
            clicks == At(c, ClickOps)
        IN  /\ At(c, {"wait_for_selector"}) = {} => clicks = {}
            /\ Cardinality(clicks) <= 2
            /\ \A k \in clicks :
                  /\ k > 1 /\ c[k].sel = c[Least(clicks) - 1].sel
                  /\ k # Least(clicks) =>
                        /\ k = Least(clicks) + 2
                        /\ c[Least(clicks)].op = "click:timeout"
                        /\ c[k - 1] = Call("scroll_into_view_if_needed", c[k].sel, 5000)
                        /\ c[k].op = "click:timeout" =>
                              o.result = None /\ o.exc = Some(TimeoutExc)
            /\ o.result # None =>
                  /\ clicks # {}
                  /\ \A k \in clicks : c[k].op = "click" <=> k = Len(c)

\* a click that timed out, was retried after the scroll and timed out again
C17_Witness ==
    /\ ProbeOf("click")
    /\ probe[1].out.step.selector = SEARCH_SUBMIT
    /\ LET c == probe[1].out.o.calls
       IN  /\ Len(c) = 4
           /\ c[1].op = "wait_for_selector"
           /\ c[2].op = "click:timeout"
           /\ c[3].op = "scroll_into_view_if_needed"
           /\ c[4].op = "click:timeout"
    /\ probe[1].out.o.result = None
    /\ probe[1].out.o.exc = Some(TimeoutExc)

NoPattern(p) == \A i \in 1..Len(p.anchors) : ~p.anchors[i].inSlotH2 /\ ~p.anchors[i].dp

\* C18: a click on __FIRST_PRODUCT_LINK__ raises the no-product-link error
\* exactly when it stops before any wait, click or scroll of an element,
\* and it does so whenever it fails on a page where none of the three
\* patterns matches; any element it waits on or clicks is one of the three
\* patterns.  An extract_text of __PRICE__ with no populated candidate
\* raises nothing and returns the empty text.
C18_HardAndSoft ==
    /\ (ProbeOf("click") /\ probe[1].out.step.selector = FIRST_PRODUCT_LINK) =>
          LET o == probe[1].out.o
              c == o.calls
              touched == At(c, WaitOps \cup ClickOps \cup ScrollOps)
          IN  /\ o.exc = Some(NoLinkExc) <=> touched = {}
              /\ o.exc = Some(NoLinkExc) => o.result = None /\ NoPattern(o.page)
              /\ (o.exc # None /\ NoPattern(o.page)) => o.exc = Some(NoLinkExc)
              /\ \A k \in touched :
                    \E j \in 1..Len(LinkPatterns) : c[k].sel = LinkPatterns[j]
    /\ (ProbeOf("do_action") /\ Populated(page.prices) = {}) =>
          /\ probe[1].out.exc = None
          /\ probe[1].out.result = Some([prefix |-> "extracted:", text |-> <<>>])

\* the click on a results page whose anchors match no pattern: one scroll,
\* three counts, the RuntimeError
C18_Witness ==
    /\ ProbeOf("click")
    /\ probe[1].out.step.selector = FIRST_PRODUCT_LINK
    /\ probe[1].out.o.page.anchors = <<PlainAnchor>>
    /\ probe[1].out.o.exc = Some(NoLinkExc)
    /\ Len(probe[1].out.o.calls) = 4
    /\ probe[1].out.o.calls[1] = Call("wheel", "", 800)

\* C19: a wait_for_selector makes one 15 s wait.  Unless that wait timed
\* out nothing follows it.  When it timed out and the request was not about
\* the product link (neither the token nor a product-link pattern), nothing
\* follows either and the timeout is raised.  When it was about the product
\* link, one 1600-pixel scroll and one re-resolution follow; a 5 s wait on
\* the resolved pattern follows exactly when a pattern matches, it is the
\* last call, and its success returns "waited:fallback:"; with no pattern
\* matching no further wait is made and the timeout is raised.
C19_WaitFallback ==
    ProbeOf("wait_for_selector") =>
        LET o == probe[1].out.o
            c == o.calls
            first == {k \in At(c, WaitOps) : c[k].n = 15000}
            f == Least(first)
            later == {k \in 1..Len(c) : k > f}
            area == \/ probe[1].out.step.selector = FIRST_PRODUCT_LINK
                    \/ \E j \in 1..Len(LinkPatterns) : c[f].sel = LinkPatterns[j]
            short == {k \in At(c, WaitOps) : c[k].n = 5000}
        IN  /\ Cardinality(first) = 1
            /\ At(c, WaitOps) = first \cup short
            /\ c[f].op # "wait_for_selector:timeout" =>
                  /\ later = {}
                  /\ c[f].op = "wait_for_selector" =>
                        o.result = Some([prefix |-> "waited:", text |-> c[f].sel])
            /\ (c[f].op = "wait_for_selector:timeout" /\ ~area) =>
                  later = {} /\ o.result = None /\ o.exc = Some(TimeoutExc)
            /\ (c[f].op = "wait_for_selector:timeout" /\ area) =>
                  /\ c[f + 1] = Call("wheel", "", 1600)
                  /\ \A k \in later :
                        \/ k = f + 1
                        \/ c[k].op = "count"
                        \/ k \in short /\ k = Len(c)
                  /\ Cardinality(short) <= 1
                  /\ short # {} <=> ~NoPattern(o.page)
                  /\ \A k \in short :
                        /\ \E j \in 1..Len(LinkPatterns) :
                              c[k].sel = LinkPatterns[j] /\ Count(o.page, c[k].sel) > 0
                        /\ c[k].op = "wait_for_selector" =>
                              o.result = Some([prefix |-> "waited:fallback:",
                                               text |-> c[k].sel])
                        /\ c[k].op # "wait_for_selector" =>
                              o.result = None /\ o.exc = Some(TimeoutExc)
                  /\ short = {} => o.result = None /\ o.exc = Some(TimeoutExc)
            /\ (o.result # None /\ o.result[1].prefix = "waited:fallback:") =>
                  short # {}

\* the wait on the token timed out on a page with no product link, the
\* larger scroll rendered one, the shorter wait found it
C19_Witness ==
    /\ ProbeOf("wait_for_selector")
    /\ probe[1].out.step.selector = FIRST_PRODUCT_LINK
    /\ page.anchors = <<>>
    /\ probe[1].out.o.page.anchors = <<PrimaryAnchor>>
    /\ probe[1].out.o.result =
          Some([prefix |-> "waited:fallback:", text |-> LINK_PRIMARY])
    /\ \E k \in 1..Len(probe[1].out.o.calls) :
          probe[1].out.o.calls[k].op = "wait_for_selector:timeout"

\* C20: every selector the executor hands to the page, to wait on, click,
\* scroll, fill or read, is a literal selector: none is one of the virtual
\* tokens __FIRST_PRODUCT_LINK__ and __PRICE__.
C20_LiteralSelectors ==
    /\ (ProbeOf("click") \/ ProbeOf("wait_for_selector")) =>
          \A k \in 1..Len(probe[1].out.o.calls) :
              probe[1].out.o.calls[k].sel \notin {FIRST_PRODUCT_LINK, PRICE}
    /\ ProbeOf("do_action") =>
          \A k \in 1..Len(probe[1].out.calls) :
              probe[1].out.calls[k].sel \notin {FIRST_PRODUCT_LINK, PRICE}

KnownActions ==
    {"goto", "fill", "click", "wait_for_selector", "extract_text", "final_answer"}

\* C21: a step whose action name is none of the six known names makes no
\* page call, leaves the page as it is, raises nothing and yields the
\* result "unknown_action:" with that name; the orchestrator then moves to
\* the next step of the plan, or to the next cycle after the last step.
C21_UnknownAction ==
    [][(pc = "act" /\ "action" \in DOMAIN steps[idx]
           /\ steps[idx].action \notin KnownActions) =>
          /\ page' = page
          /\ calls' = <<>>
          /\ exc' = None /\ hist'.bodyExc = None
          /\ result' = Some([prefix |-> "unknown_action:",
                             text |-> steps[idx].action])
          /\ final_result' = final_result
          /\ steps' = steps
          /\ IF idx < Len(steps) THEN pc' = "act" /\ idx' = idx + 1
             ELSE pc' = "loop"]_vars

\* the unknown action "hover" was answered and the step after it is next
C21_Witness ==
    /\ pc = "act" /\ idx = 2
    /\ steps[1].action = "hover"
    /\ result = Some([prefix |-> "unknown_action:", text |-> "hover"])
    /\ exc = None
    /\ calls = <<>>


\* C22: the bot-gate dismissal, failed or not, raises nothing and is
\* followed by the snapshot of the same cycle; a search-submit click whose
\* content-loaded wait timed out raises nothing and is followed by the
\* next step of the plan (the next cycle after the last step).
C22_BestEffort ==
    [][/\ pc = "gate" =>
             /\ pc' = "observe"
             /\ cycle' = cycle
             /\ exc' = None /\ hist' = hist
       /\ (pc = "act" /\ calls' # <<>>
             /\ calls'[Len(calls')] =
                   Call("wait_for_load_state:timeout", "domcontentloaded", 8000)) =>
             /\ exc' = None /\ hist'.bodyExc = None /\ hist'.finals = hist.finals
             /\ result' = Some([prefix |-> "clicked:", text |-> SEARCH_SUBMIT])
             /\ steps' = steps /\ cycle' = cycle
             /\ IF idx < Len(steps) THEN pc' = "act" /\ idx' = idx + 1
                ELSE pc' = "loop"]_vars

\* the click on the interstitial button failed and the snapshot is next
C22_Witness ==
    /\ pc = "observe"
    /\ exc = None
    /\ ShowsGate(page)
    /\ calls # <<>>
    /\ calls[Len(calls)].op = "click:error"

\* the content-loaded wait after the submit click timed out and the wait
\* for the first product link is next
C22_SubmitWitness ==
    /\ pc = "act" /\ idx = 4 /\ steps = HomePlan(user_goal)
    /\ calls # <<>>
    /\ calls[Len(calls)].op = "wait_for_load_state:timeout"
    /\ exc = None

\* what the snapshot holds for attribute a of the i-th candidate: the
\* null/empty value when reading it raised, the value read otherwise
ReadAs(i, a) ==
    IF <<i, a>> \in page.broken THEN (IF a = "text" THEN <<>> ELSE None)
    ELSE IF a = "text" THEN Strip(page.dom[i].text)
    ELSE page.dom[i][a]

KeptAs(i) ==
    Keep([tag |-> ReadAs(i, "tag"), selector_guess |-> ReadAs(i, "selector_guess")],
         ReadAs(i, "text"))

\* C23: whatever attribute reads raise, the snapshot is produced; the k-th
\* element describes the k-th candidate retained on the values read, with
\* exactly the six attributes, the failing ones null (text empty) and every
\* other attribute, of this and of the other elements, as the page has it.
C23_AttributeFailures ==
    pc = "plan" =>
        LET snap == state.snapshot
            K == {i \in 1..RawCount(page.dom) : KeptAs(i)}
        IN  /\ exc = None
            /\ state.url = page.url
            /\ Len(snap) = Min(Cardinality(K), SnapshotCap)
            /\ \A k \in 1..Len(snap) :
                  /\ DOMAIN snap[k] = Attributes
                  /\ \E i \in K :
                        /\ Cardinality({j \in K : j <= i}) = k
                        /\ \A a \in Attributes :
                              snap[k][a] = IF a = "text" THEN Take(ReadAs(i, a), TextCap)
                                           ELSE ReadAs(i, a)

\* the role of the search box and the label of the heading could not be
\* read: both elements are in the snapshot with their other attributes
C23_Witness ==
    /\ pc = "plan"
    /\ page.dom = <<RichInput, RichHeading>>
    /\ page.broken = {<<1, "role">>, <<2, "aria_label">>}
    /\ Len(state.snapshot) = 2
    /\ state.snapshot[1] = [RichInput EXCEPT !.role = None]
    /\ state.snapshot[2] = [RichHeading EXCEPT !.aria_label = None,
                                               !.text = <<"Results">>]

GateMatch(st) == GateSignal(st.snapshot) /\ ~BoxSignal(st.snapshot)
ResultsUrlPattern(st) == Contains(st.url, <<"s?k=">>)
ProductUrlPattern(st) == Contains(st.url, <<"/dp/">>)
HasFinalAnswer(plan) == \E i \in 1..Len(plan) : plan[i].action = "final_answer"

\* C24: with no interstitial match, the first matching rule decides: a home
\* URL (neither the results nor the product pattern) with a search box
\* gives the four-step search plan; a URL with the results pattern gives
\* the three-step results plan, also when it has the product pattern too; a
\* URL with only the product pattern gives the four-step product plan
\* ending in final_answer; and no other plan holds a final_answer step.
C24_RuleTable ==
    Planned =>
        /\ (/\ ~GateMatch(state)
            /\ Contains(state.url, <<"amazon.com">>)
            /\ ~ResultsUrlPattern(state) /\ ~ProductUrlPattern(state)
            /\ BoxSignal(state.snapshot)) =>
              steps = << [action |-> "wait_for_selector", selector |-> "#twotabsearchtextbox"],
                         [action |-> "fill", selector |-> "#twotabsearchtextbox",
                          value |-> user_goal],
                         [action |-> "click", selector |-> "#nav-search-submit-button"],
                         [action |-> "wait_for_selector",
                          selector |-> "__FIRST_PRODUCT_LINK__"] >>
        /\ (~GateMatch(state) /\ ResultsUrlPattern(state)) =>
              steps = << [action |-> "wait_for_selector",
                          selector |-> "__FIRST_PRODUCT_LINK__"],
                         [action |-> "click", selector |-> "__FIRST_PRODUCT_LINK__"],
                         [action |-> "wait_for_selector", selector |-> "#productTitle"] >>
        /\ (~GateMatch(state) /\ ProductUrlPattern(state) /\ ~ResultsUrlPattern(state)) =>
              /\ Len(steps) = 4
              /\ SubSeq(steps, 1, 3) =
                    << [action |-> "wait_for_selector", selector |-> "#productTitle"],
                       [action |-> "extract_text", selector |-> "__PRICE__"],
                       [action |-> "extract_text", selector |-> "#productTitle"] >>
              /\ steps[4].action = "final_answer"
        /\ HasFinalAnswer(steps) =>
              ~GateMatch(state) /\ ProductUrlPattern(state) /\ ~ResultsUrlPattern(state)

\* a URL with both patterns and no interstitial: the results plan
C24_Witness ==
    /\ Planned
    /\ state.url = ResultsDpUrl
    /\ ~GateMatch(state)
    /\ Len(steps) = 3 /\ steps[2].action = "click"
    /\ ~HasFinalAnswer(steps)

\* a URL with only the product pattern: the plan ending in final_answer
C24_ProductWitness ==
    /\ Planned
    /\ state.url = ProductUrl
    /\ ~GateMatch(state)
    /\ Len(steps) = 4 /\ steps[4].action = "final_answer"

\* the positions of the running cycle's plan that extracted the price
PriceSteps ==
    {i \in 1..Len(hist.results) :
        /\ steps[i].action = "extract_text"
        /\ Get(steps[i], "selector", "None") = PRICE}

\* C25: a Final result is captured, and carried to the caller, only in a
\* cycle whose price extraction returned a non-empty text.
C25_FinalNeedsPrice ==
    (prog = "agent_run" /\ final_result # None) =>
        \E i \in PriceSteps : hist.results[i].text # <<>>

\* C26: a final answer is captured only in a cycle whose snapshot the
\* planner classified as a product page (the product URL pattern only, no
\* interstitial), and only as the fourth result of that cycle, after the
\* wait for the title, the price extraction and the title extraction
\* returned in that order, nothing having raised.
C26_FinalAfterProductSteps ==
    (prog = "agent_run" /\ final_result # None) =>
        /\ ~GateMatch(state)
        /\ ProductUrlPattern(state) /\ ~ResultsUrlPattern(state)
        /\ hist.bodyExc = None
        /\ Len(steps) = 4 /\ idx = 4
        /\ Len(hist.results) = 4
        /\ steps[1] = [action |-> "wait_for_selector", selector |-> "#productTitle"]
        /\ hist.results[1] = [prefix |-> "waited:", text |-> "#productTitle"]
        /\ steps[2] = [action |-> "extract_text", selector |-> "__PRICE__"]
        /\ hist.results[2].prefix = "extracted:"
        /\ steps[3] = [action |-> "extract_text", selector |-> "#productTitle"]
        /\ hist.results[3].prefix = "extracted:"
        /\ steps[4].action = "final_answer"
        /\ hist.results[4].prefix = "FINAL:"

\* the walk home -> results -> product returned its final answer after
\* the three product steps
C26_Witness ==
    /\ prog = "agent_run" /\ pc = "done"
    /\ cycle = 3
    /\ outcome # None /\ ~outcome[1].raised
    /\ outcome[1].value = "Scraped price and title from product page"
    /\ Len(hist.results) = 4
    /\ hist.results[2] = [prefix |-> "extracted:", text |-> PriceText]
    /\ hist.results[3].text # <<>>

C28_BrowserCloseAttempted ==
    (prog = "agent_run" /\ pc = "done" /\ hist.contextCloseCalls > 0) =>
        hist.browserCloseCalls = 1

====================================================================
